---- MODULE Spec2Model ----
(***************************************************************************)
(* Bullet-journal PDF generation pipeline of remarkable-template-maker:    *)
(* generatePlannerPDF (cover -> content pages -> index insertion -> shift  *)
(* -> registry -> navigation links -> calendar date links), together with  *)
(* the pure helpers it uses (date arithmetic, key formatting, registry     *)
(* lookup).                                                                *)
(*                                                                         *)
(* A Date is modelled by its local calendar day, as the number of days     *)
(* since 1970-01-01; the time of day never matters to the code modelled.   *)
(* A physical page is identified by the order in which it was created      *)
(* (0 is the cover); `doc' is the document's page list, so that the        *)
(* position of a page and its identity are different things.               *)
(***************************************************************************)
EXTENDS Integers, Sequences, FiniteSets, TLC

\* the configuration and the locals of the running call of generatePlannerPDF
VARIABLES cfg, pc, doc, drawn, bujoPageRefs, indexRefs, indexPageCount,
          tocPageIndex, allRefs, registry, links, shifts
\* a second call of generatePlannerPDF: its locals while it is suspended at
\* an await (other), and which of the two calls is running (active)
VARIABLES other, active
\* the preview hook (hooks/usePreview.ts): its React state and refs, the
\* AbortController objects it created, and its generations in flight
VARIABLES state, abortController, controllers, pdfRef, previousPageRef, gens, mounted
\* the configuration the hook was last rendered with (configRef), the timers
\* it has set and the one debounceTimeout holds, and the page loads in flight
VARIABLES configRef, timers, debounceTimeout, renderingPage, loads

callVars == <<other, active>>
hookVars == <<state, abortController, controllers, pdfRef, previousPageRef, gens, mounted,
              configRef, timers, debounceTimeout, renderingPage, loads>>

vars == <<cfg, pc, doc, drawn, bujoPageRefs, indexRefs, indexPageCount,
          tocPageIndex, allRefs, registry, links, shifts, callVars, hookVars>>

(***************************************************************************)
(* Bounds of the model.                                                    *)
(***************************************************************************)
MaxCollections == 1

(***************************************************************************)
(* JavaScript `undefined' for an optional number (PageRef.weekIndex,       *)
(* PageRef.monthIndex, PageRef.date, a missing Map entry).                 *)
(***************************************************************************)
Undefined == -1

Min(a, b) == IF a <= b THEN a ELSE b
Max(a, b) == IF a >= b THEN a ELSE b
Ceil(a, b) == (a + b - 1) \div b

RECURSIVE FoldSeq(_, _, _, _, _)
\* for (const x of items[lo..hi]) acc = Step(acc, x).  The items are taken in
\* order; the range is halved, and the result of the first half is computed
\* (as the element of a singleton) before the second half starts, only to
\* keep the evaluation shallow.
FoldSeq(Step(_, _), acc, items, lo, hi) ==
  IF lo > hi THEN acc
  ELSE IF lo = hi THEN Step(acc, items[lo])
  ELSE LET mid == (lo + hi) \div 2
       IN CHOOSE r \in {FoldSeq(Step, left, items, mid + 1, hi) :
                          left \in {FoldSeq(Step, acc, items, lo, mid)}} : TRUE

\* a for-of loop over a whole array
ForOf(Step(_, _), acc, items) == FoldSeq(Step, acc, items, 1, Len(items))

(***************************************************************************)
(* Calendar arithmetic (JavaScript Date getters and date-fns helpers).     *)
(***************************************************************************)
IsLeapYear(y) == (y % 4 = 0 /\ y % 100 # 0) \/ y % 400 = 0

DaysInMonthOf(y, m) ==
  IF m = 2 THEN (IF IsLeapYear(y) THEN 29 ELSE 28)
  ELSE IF m \in {4, 6, 9, 11} THEN 30 ELSE 31

\* new Date(y, m - 1, d): the day number of a civil date
MkDate(y, m, d) ==
  LET yy  == IF m <= 2 THEN y - 1 ELSE y
      era == yy \div 400
      yoe == yy - era * 400
      mp  == IF m > 2 THEN m - 3 ELSE m + 9
      doy == (153 * mp + 2) \div 5 + d - 1
      doe == yoe * 365 + yoe \div 4 - yoe \div 100 + doy
  IN era * 146097 + doe - 719468

\* the civil date <<year, month 1..12, day>> of a day number
Civil(dn) ==
  LET z   == dn + 719468
      era == z \div 146097
      doe == z - era * 146097
      yoe == (doe - doe \div 1460 + doe \div 36524 - doe \div 146096) \div 365
      doy == doe - (365 * yoe + yoe \div 4 - yoe \div 100)
      mp  == (5 * doy + 2) \div 153
      d   == doy - (153 * mp + 2) \div 5 + 1
      m   == IF mp < 10 THEN mp + 3 ELSE mp - 9
      y   == yoe + era * 400 + (IF m <= 2 THEN 1 ELSE 0)
  IN <<y, m, d>>

getFullYear(date) == Civil(date)[1]
getMonth(date) == Civil(date)[2] - 1
getDate(date) == Civil(date)[3]
\* 0 = Sunday .. 6 = Saturday
getDay(date) == (date + 4) % 7
getDaysInMonth(date) == DaysInMonthOf(getFullYear(date), getMonth(date) + 1)

startOfMonth(date) == date - (getDate(date) - 1)
\* startOfWeek(date, { weekStartsOn: 0 })
startOfWeek(date) == date - getDay(date)

\* date-fns getWeekYear with weekStartsOn 0 and firstWeekContainsDate 1
getWeekYear(date) ==
  LET year == getFullYear(date)
      startOfNextYear == startOfWeek(MkDate(year + 1, 1, 1))
      startOfThisYear == startOfWeek(MkDate(year, 1, 1))
  IN IF date >= startOfNextYear THEN year + 1
     ELSE IF date >= startOfThisYear THEN year
     ELSE year - 1

startOfWeekYear(date) == startOfWeek(MkDate(getWeekYear(date), 1, 1))

\* getWeek(date, { weekStartsOn: 0 })
getWeekNumber(date) == (startOfWeek(date) - startOfWeekYear(date)) \div 7 + 1

\* first, first + step, ... up to last
DatesFrom(first, last, step) ==
  IF first > last THEN <<>>
  ELSE [i \in 1..((last - first) \div step + 1) |-> first + (i - 1) * step]

eachDayOfInterval(start, end) == DatesFrom(start, end, 1)
eachWeekOfInterval(start, end) == DatesFrom(startOfWeek(start), startOfWeek(end), 7)

RECURSIVE MonthsFrom(_, _)
MonthsFrom(first, last) ==
  IF first > last THEN <<>>
  ELSE <<first>> \o MonthsFrom(first + getDaysInMonth(first), last)

eachMonthOfInterval(start, end) == MonthsFrom(startOfMonth(start), startOfMonth(end))

(***************************************************************************)
(* Strings are sequences of one-character strings.                         *)
(***************************************************************************)
DigitChars == <<"0", "1", "2", "3", "4", "5", "6", "7", "8", "9">>

RECURSIVE numToString(_)
\* Number.prototype.toString for a non-negative integer
numToString(n) ==
  IF n < 10 THEN <<DigitChars[n + 1]>>
  ELSE numToString(n \div 10) \o <<DigitChars[(n % 10) + 1]>>

\* String(n).padStart(2, '0')
PadStart2(s) == IF Len(s) < 2 THEN <<"0">> \o s ELSE s

IsDigit(c) == \E i \in 1..10 : DigitChars[i] = c
DigitValue(c) == (CHOOSE i \in 1..10 : DigitChars[i] = c) - 1

RECURSIVE ParseDigits(_, _, _)
ParseDigits(s, i, acc) ==
  IF i > Len(s) \/ ~IsDigit(s[i]) THEN acc
  ELSE ParseDigits(s, i + 1, acc * 10 + DigitValue(s[i]))

\* parseInt of a string that starts with a digit (NaN is Undefined)
parseInt(s) ==
  IF Len(s) = 0 \/ ~IsDigit(s[1]) THEN Undefined ELSE ParseDigits(s, 1, 0)

formatYearMonth(date) ==
  numToString(getFullYear(date)) \o <<"-">> \o PadStart2(numToString(getMonth(date) + 1))

\* a date key whose month and day are not padded to two digits
formatDateKeyUnpadded(date) ==
  numToString(getFullYear(date)) \o <<"-">> \o numToString(getMonth(date) + 1)
    \o <<"-">> \o numToString(getDate(date))

formatDateKey(date) ==
  numToString(getFullYear(date)) \o <<"-">> \o PadStart2(numToString(getMonth(date) + 1))
    \o <<"-">> \o PadStart2(numToString(getDate(date)))

(***************************************************************************)
(* A JavaScript Map: a sequence of <<key, value>> in insertion order; set  *)
(* on a present key replaces the value and keeps the key's place.          *)
(***************************************************************************)
MapHas(m, k) == \E i \in 1..Len(m) : m[i][1] = k

\* a lookup that answers with the first entry when the key is absent
MapGetOrFirst(m, k) ==
  IF MapHas(m, k) THEN m[CHOOSE i \in 1..Len(m) : m[i][1] = k][2]
  ELSE IF Len(m) > 0 THEN m[1][2] ELSE Undefined

MapGet(m, k) ==
  IF MapHas(m, k) THEN m[CHOOSE i \in 1..Len(m) : m[i][1] = k][2] ELSE Undefined

MapSet(m, k, v) ==
  IF MapHas(m, k)
  THEN [i \in 1..Len(m) |-> IF m[i][1] = k THEN <<k, v>> ELSE m[i]]
  ELSE Append(m, <<k, v>>)


(***************************************************************************)
(* Device and density profiles (types/planner.ts) and the dimensions       *)
(* derived from a configuration.                                           *)
(***************************************************************************)
DEVICE_CONFIGS ==
  [remarkable2 |-> [width |-> 448, height |-> 597, margin |-> 24],
   paperPro    |-> [width |-> 510, height |-> 679, margin |-> 28],
   move        |-> [width |-> 260, height |-> 463, margin |-> 18]]

\* spacing is kept in tenths (0.8, 1.0, 1.2)
DENSITY_CONFIGS ==
  [compact     |-> [lineHeight |-> 14, fontSize |-> 8,  headerSize |-> 12, spacing10 |-> 8],
   normal      |-> [lineHeight |-> 18, fontSize |-> 9,  headerSize |-> 14, spacing10 |-> 10],
   comfortable |-> [lineHeight |-> 24, fontSize |-> 10, headerSize |-> 16, spacing10 |-> 12]]

getDeviceDimensions(config) ==
  [WIDTH          |-> DEVICE_CONFIGS[config.device].width,
   HEIGHT         |-> DEVICE_CONFIGS[config.device].height,
   MARGIN         |-> config.padding.left,
   TOOLBAR_HEIGHT |-> config.padding.top,
   padding        |-> config.padding]

\* Math.round(x / 10) for a non-negative integer x
RoundTenths(x) == (x + 5) \div 10

\* Math.round(density.lineHeight * 0.7)
MinLineHeight(density) == RoundTenths(density.lineHeight * 7)

\* an available height that leaves room for a footer of 300
AvailableHeightWithFooter(dims) ==
  dims.HEIGHT - dims.padding.top - dims.padding.bottom - 20 - 25 - 10 - 300

\* HEIGHT - padding.top - padding.bottom - navHeight - headerHeight - 10
AvailableHeight(dims) ==
  dims.HEIGHT - dims.padding.top - dims.padding.bottom - 20 - 25 - 10

(***************************************************************************)
(* Quotients.  A JavaScript number that is a quotient of two integers is   *)
(* kept as <<numerator, denominator>> with a positive denominator, not     *)
(* reduced; the two passes that compute row positions perform the same     *)
(* operations in the same order, so equal quotients are equal numbers.     *)
(***************************************************************************)
Quot(a, b) == <<a, b>>
QuotLeq(p, q) == p[1] * q[2] <= q[1] * p[2]
QuotEq(p, q) == p[1] * q[2] = q[1] * p[2]
\* Math.max(a, b), Math.min(a, b)
QuotMax(p, q) == IF QuotLeq(q, p) THEN p ELSE q
QuotMin(p, q) == IF QuotLeq(p, q) THEN p ELSE q
\* y after i times y -= lineHeight, from the integer top
RowY(top, lineHeight, i) == <<top * lineHeight[2] - i * lineHeight[1], lineHeight[2]>>

\* drawTopNavigation's return value: navY - navFontSize - 6
NavReturnY(dims) == (dims.HEIGHT - dims.padding.top - 7 - 2) - 7 - 6

\* drawPageTitle's return value
drawPageTitle(startY, fontSize) == startY - fontSize - 8

\* one row fewer on every page
DaysPerPageShort(dims, density) == AvailableHeight(dims) \div MinLineHeight(density) - 1

\* Math.floor(availableHeight / minLineHeight)
DaysPerPage(dims, density) == AvailableHeight(dims) \div MinLineHeight(density)

(***************************************************************************)
(* Text widths: Helvetica advance widths in 1/1000 of the font size, so    *)
(* that widthOfTextAtSize is size * units, in 1/1000 pt.                   *)
(***************************************************************************)
HelveticaUnits(text) ==
  CASE text = "Index"      -> 2446
    [] text = "Future Log" -> 4836
    [] text = "Monthly"    -> 3501
    [] text = "Tasks"      -> 2667
    [] text = "Weekly"     -> 3278
    [] text = "Calendar"   -> 4057
    [] text = "<"          -> 584
    [] text = ">"          -> 584
    [] text = "  |  "      -> 1372

widthOfTextAtSize(text, size) == size * HelveticaUnits(text)

(***************************************************************************)
(* page-utils.ts                                                           *)
(***************************************************************************)
getNavLabels(pageType, nav) ==
  CASE pageType = "daily" ->
         <<"Index">>
         \o (IF nav.hasFutureLog THEN <<"Future Log">> ELSE <<>>)
         \o (IF nav.hasMonthlyLog THEN <<"Monthly", "Tasks">> ELSE <<>>)
         \o (IF nav.hasWeeklyReview THEN <<"Weekly">> ELSE <<>>)
    [] pageType = "weekly" ->
         <<"<", "Index">>
         \o (IF nav.hasFutureLog THEN <<"Future Log">> ELSE <<>>)
         \o (IF nav.hasMonthlyLog THEN <<"Monthly", "Tasks">> ELSE <<>>)
         \o <<">">>
    [] pageType = "monthly" ->
         <<"<", "Index">>
         \o (IF nav.hasFutureLog THEN <<"Future Log">> ELSE <<>>)
         \o <<"Tasks", ">">>
    [] pageType = "monthly-tasks" ->
         <<"<", "Index">>
         \o (IF nav.hasFutureLog THEN <<"Future Log">> ELSE <<>>)
         \o <<"Calendar", ">">>
    [] pageType = "future" -> <<"Index">>
    [] pageType = "key" ->
         <<"Index">> \o (IF nav.hasFutureLog THEN <<"Future Log">> ELSE <<>>)
    [] pageType = "collection" -> <<"<", "Index", ">">>
    [] pageType = "index" ->
         IF nav.hasFutureLog THEN <<"Future Log">> ELSE <<>>

RECURSIVE NavRow(_, _, _)
\* the labels of a navigation row with the x at which each is placed
\* (x in 1/1000 pt), as the loop of drawTopNavigation advances navX
NavRow(labels, i, navX) ==
  IF i > Len(labels) THEN <<>>
  ELSE LET w   == widthOfTextAtSize(labels[i], 7)
           sep == IF i < Len(labels) THEN widthOfTextAtSize("  |  ", 7) ELSE 0
       IN <<[label |-> labels[i], x |-> navX]>> \o NavRow(labels, i + 1, navX + w + sep)

drawTopNavigation(dims, navItems) == NavRow(navItems, 1, dims.padding.left * 1000)

(***************************************************************************)
(* The document under construction: doc is the page list (page ids in      *)
(* document order), drawn[id + 1] what was drawn on page id.               *)
(***************************************************************************)
NewPage(type, nav, days) == [type |-> type, nav |-> nav, days |-> days]

\* a calendar page: rowY[i] is the baseline y at which days[i] was drawn
CalendarPage(nav, days, contentTop, lineHeight) ==
  [type |-> "monthly", nav |-> nav, days |-> days, lineHeight |-> lineHeight,
   rowY |-> [i \in 1..Len(days) |-> RowY(contentTop, lineHeight, i - 1)]]

\* pdfDoc.addPage: a new page at the end
addPage(g, content) ==
  [doc |-> Append(g.doc, Len(g.drawn)), drawn |-> Append(g.drawn, content)]

\* pdfDoc.insertPage(index, ...): a new page before position index (0-based)
insertPage(g, index, content) ==
  [doc |-> SubSeq(g.doc, 1, index) \o <<Len(g.drawn)>> \o SubSeq(g.doc, index + 1, Len(g.doc)),
   drawn |-> Append(g.drawn, content)]

getPageCount(g) == Len(g.doc)
\* pdfDoc.getPage(i): the page object at position i (0-based)
getPage(d, i) == d[i + 1]

NoKey == <<>>

\* a PageRef; page is the page object that was created for the reference
PageRef(label, pageIndex, type, date, monthIndex, weekIndex, yearMonth, page) ==
  [label |-> label, pageIndex |-> pageIndex, type |-> type, date |-> date,
   monthIndex |-> monthIndex, weekIndex |-> weekIndex, yearMonth |-> yearMonth,
   page |-> page]

\* a context that reports every section as present
NavContextAllSections(config) ==
  [hasFutureLog    |-> TRUE,
   hasMonthlyLog   |-> TRUE,
   hasWeeklyReview |-> TRUE,
   hasDailyLog     |-> TRUE]

NavContext(config) ==
  [hasFutureLog    |-> config.includeFutureLog,
   hasMonthlyLog   |-> config.includeMonthlyLog,
   hasWeeklyReview |-> config.includeWeeklyReview,
   hasDailyLog     |-> config.includeDailyLog]

\* the context handed to every section generator
Ctx(config) ==
  [dims    |-> getDeviceDimensions(config),
   density |-> DENSITY_CONFIGS[config.density],
   nav     |-> NavContext(config)]

(***************************************************************************)
(* Section generators.  Each returns the document after its pages were     *)
(* appended (doc, drawn) and the references it created (refs).             *)
(***************************************************************************)
generateKeyPage(ctx, g) ==
  LET g1 == addPage(g, NewPage("key", drawTopNavigation(ctx.dims, getNavLabels("key", ctx.nav)), <<>>))
      pageIndex == getPageCount(g1) - 1
  IN [doc |-> g1.doc, drawn |-> g1.drawn,
      refs |-> <<PageRef(<<"Key">>, pageIndex, "key", Undefined, Undefined, Undefined,
                         NoKey, getPage(g1.doc, pageIndex))>>]

\* Math.min(4, Math.max(2, Math.floor(availableHeight / minMonthHeight)))
MonthsPerPage(ctx) ==
  LET minMonthHeight == RoundTenths(70 * ctx.density.spacing10)
      availableHeight == ctx.dims.HEIGHT - ctx.dims.padding.top - ctx.dims.padding.bottom - 20 - 20
  IN Min(Max(2, availableHeight \div minMonthHeight), 4)

RECURSIVE FutureLogLoop(_, _, _, _, _)
FutureLogLoop(ctx, g, pageNum, numPages, refs) ==
  IF pageNum >= numPages THEN [doc |-> g.doc, drawn |-> g.drawn, refs |-> refs]
  ELSE LET g1 == addPage(g, NewPage("future",
                        drawTopNavigation(ctx.dims, getNavLabels("future", ctx.nav)), <<>>))
           pageIndex == getPageCount(g1) - 1
       IN FutureLogLoop(ctx, g1, pageNum + 1, numPages,
            Append(refs, PageRef(<<"Future Log", pageNum + 1>>, pageIndex, "future",
                                 Undefined, Undefined, Undefined, NoKey,
                                 getPage(g1.doc, pageIndex))))

generateFutureLog(ctx, g, months) ==
  FutureLogLoop(ctx, g, 0, Ceil(months, MonthsPerPage(ctx)), <<>>)

\* the days the row loop of one calendar page draws: i from 0 while
\* i < daysOnThisPage and dayIndex <= daysInMonth
RowsOnPage(dayIndex, daysOnThisPage, daysInMonth) ==
  [i \in 1..Max(0, Min(daysOnThisPage, daysInMonth - dayIndex + 1)) |-> dayIndex + i - 1]

\* the row height of a full page, on every page
SplitLineHeightFullPage(dims, density, daysOnThisPage) ==
  QuotMax(Quot(MinLineHeight(density), 1),
          Quot(AvailableHeight(dims), DaysPerPage(dims, density)))

\* Math.max(minLineHeight, availableHeight / daysOnThisPage)
SplitLineHeight(dims, density, daysOnThisPage) ==
  QuotMax(Quot(MinLineHeight(density), 1), Quot(AvailableHeight(dims), daysOnThisPage))

\* Math.min(preferredLineHeight, (contentTop - padding.bottom - 10) / daysInMonth)
CombinedLineHeight(dims, density, contentTop, daysInMonth) ==
  QuotMin(Quot(density.lineHeight, 1), Quot(contentTop - dims.padding.bottom - 10, daysInMonth))

RECURSIVE CalendarLoop(_, _, _, _, _, _)
\* the while (dayIndex <= daysInMonth) loop of the split layout
CalendarLoop(ctx, g, monthDate, dayIndex, calendarPageNum, refs) ==
  LET daysInMonth == getDaysInMonth(monthDate)
      daysPerPage == DaysPerPage(ctx.dims, ctx.density)
  IN IF dayIndex > daysInMonth
     THEN [doc |-> g.doc, drawn |-> g.drawn, refs |-> refs]
     ELSE LET daysOnThisPage == Min(daysPerPage, daysInMonth - dayIndex + 1)
              rows == RowsOnPage(dayIndex, daysOnThisPage, daysInMonth)
              contentTop == drawPageTitle(NavReturnY(ctx.dims), 11)
              g1 == addPage(g, CalendarPage(
                       drawTopNavigation(ctx.dims, getNavLabels("monthly", ctx.nav)), rows,
                       contentTop, SplitLineHeight(ctx.dims, ctx.density, daysOnThisPage)))
              pageIndex == getPageCount(g1) - 1
          IN CalendarLoop(ctx, g1, monthDate, dayIndex + Len(rows), calendarPageNum + 1,
               Append(refs, PageRef(<<"Cal", getMonth(monthDate), calendarPageNum + 1>>,
                                    pageIndex, "monthly", monthDate, getMonth(monthDate),
                                    Undefined, formatYearMonth(monthDate),
                                    getPage(g1.doc, pageIndex))))

\* a decision on the page count alone
NeedsSplitByPageCount(ctx, monthDate) ==
  Ceil(getDaysInMonth(monthDate), DaysPerPage(ctx.dims, ctx.density)) > 1

NeedsSplit(ctx, monthDate) ==
  LET daysInMonth == getDaysInMonth(monthDate)
      calendarPages == Ceil(daysInMonth, DaysPerPage(ctx.dims, ctx.density))
  IN calendarPages > 1 \/ daysInMonth * ctx.density.lineHeight > AvailableHeight(ctx.dims)

generateMonthlyLog(ctx, g, monthDate) ==
  LET yearMonth == formatYearMonth(monthDate)
      daysInMonth == getDaysInMonth(monthDate)
  IN IF NeedsSplit(ctx, monthDate)
     THEN LET cal == CalendarLoop(ctx, g, monthDate, 1, 0, <<>>)
              g2 == addPage(cal, NewPage("monthly-tasks",
                      drawTopNavigation(ctx.dims, getNavLabels("monthly-tasks", ctx.nav)), <<>>))
              taskPageIndex == getPageCount(g2) - 1
          IN [doc |-> g2.doc, drawn |-> g2.drawn,
              refs |-> Append(cal.refs,
                        PageRef(<<"Tasks", getMonth(monthDate)>>, taskPageIndex, "monthly-tasks",
                                monthDate, getMonth(monthDate), Undefined, yearMonth,
                                getPage(g2.doc, taskPageIndex)))]
     ELSE LET contentTop == drawPageTitle(NavReturnY(ctx.dims), 11)
              g1 == addPage(g, CalendarPage(
                      drawTopNavigation(ctx.dims, getNavLabels("monthly", ctx.nav)),
                      [d \in 1..daysInMonth |-> d], contentTop,
                      CombinedLineHeight(ctx.dims, ctx.density, contentTop, daysInMonth)))
              pageIndex == getPageCount(g1) - 1
          IN [doc |-> g1.doc, drawn |-> g1.drawn,
              refs |-> <<PageRef(<<"Month", getMonth(monthDate)>>, pageIndex, "monthly",
                                 monthDate, getMonth(monthDate), Undefined, yearMonth,
                                 getPage(g1.doc, pageIndex)),
                         PageRef(<<"Tasks", getMonth(monthDate)>>, pageIndex, "monthly-tasks",
                                 monthDate, getMonth(monthDate), Undefined, yearMonth,
                                 getPage(g1.doc, pageIndex))>>]

\* a generator that reads the page count before it appends its page
generateWeeklyReviewStale(ctx, g, weekStartDate) ==
  LET pageIndex == getPageCount(g) - 1
      g1 == addPage(g, NewPage("weekly",
                drawTopNavigation(ctx.dims, getNavLabels("weekly", ctx.nav)), <<>>))
      weekNum == getWeekNumber(weekStartDate)
  IN [doc |-> g1.doc, drawn |-> g1.drawn,
      refs |-> <<PageRef(<<"Week", weekNum>>, pageIndex, "weekly", weekStartDate,
                         getMonth(weekStartDate), weekNum, formatYearMonth(weekStartDate),
                         getPage(g1.doc, pageIndex))>>]

generateWeeklyReview(ctx, g, weekStartDate) ==
  LET g1 == addPage(g, NewPage("weekly",
                drawTopNavigation(ctx.dims, getNavLabels("weekly", ctx.nav)), <<>>))
      pageIndex == getPageCount(g1) - 1
      weekNum == getWeekNumber(weekStartDate)
  IN [doc |-> g1.doc, drawn |-> g1.drawn,
      refs |-> <<PageRef(<<"Week", weekNum>>, pageIndex, "weekly", weekStartDate,
                         getMonth(weekStartDate), weekNum, formatYearMonth(weekStartDate),
                         getPage(g1.doc, pageIndex))>>]

generateDailyLog(ctx, g, date) ==
  LET g1 == addPage(g, NewPage("daily",
                drawTopNavigation(ctx.dims, getNavLabels("daily", ctx.nav)), <<>>))
      pageIndex == getPageCount(g1) - 1
  IN [doc |-> g1.doc, drawn |-> g1.drawn,
      refs |-> <<PageRef(<<"Day", date>>, pageIndex, "daily", date, getMonth(date),
                         getWeekNumber(date), formatYearMonth(date),
                         getPage(g1.doc, pageIndex))>>]

NoSkip(x) == FALSE

\* for (const x of items) { if (Skip(x)) continue; pageRefs.push(...Gen(ctx, x)) },
\* Gen one of the generators above
ForEach(Gen(_, _, _), Skip(_), ctx, g, items) ==
  LET Step(acc, x) ==
        IF Skip(x) THEN acc
        ELSE LET r == Gen(ctx, acc, x)
             IN [doc |-> r.doc, drawn |-> r.drawn, refs |-> acc.refs \o r.refs]
  IN ForOf(Step, [doc |-> g.doc, drawn |-> g.drawn, refs |-> <<>>], items)

IsWeekend(day) == getDay(day) = 0 \/ getDay(day) = 6

\* one iteration of for (let i = 0; i < count; i++)
CollectionPage(ctx, acc, i) ==
  LET g1 == addPage(acc, NewPage("collection",
                drawTopNavigation(ctx.dims, getNavLabels("collection", ctx.nav)), <<>>))
      pageIndex == getPageCount(g1) - 1
  IN [doc |-> g1.doc, drawn |-> g1.drawn,
      refs |-> <<PageRef(<<"Collection", i + 1>>, pageIndex, "collection",
                         Undefined, Undefined, Undefined, NoKey,
                         getPage(g1.doc, pageIndex))>>]

generateCollectionPages(ctx, g, count) ==
  ForEach(CollectionPage, NoSkip, ctx, g, [k \in 1..count |-> k - 1])

(***************************************************************************)
(* The index builder (bujo/index.ts).  Its state: the document, the index  *)
(* page being filled (page), the pen position y, the number of index pages *)
(* so far (count), the index references and the links emitted.             *)
(***************************************************************************)
FilterType(refs, type) == SelectSeq(refs, LAMBDA r : r.type = type)

\* `${date.getFullYear()}-${date.getMonth()}`
MonthKey(date) == numToString(getFullYear(date)) \o <<"-">> \o numToString(getMonth(date))

\* grouped.get(key).push(ref) for every ref, the groups in first-seen order
GroupRefs(KeyOf(_), refs, grouped) ==
  LET Step(acc, ref) ==
        LET k == KeyOf(ref)
            old == IF MapHas(acc, k) THEN MapGet(acc, k) ELSE <<>>
        IN MapSet(acc, k, Append(old, ref))
  IN ForOf(Step, grouped, refs)

DailyMonthKey(ref) == MonthKey(ref.date)
groupDailyByMonth(dailyRefs) ==
  GroupRefs(DailyMonthKey, SelectSeq(dailyRefs, LAMBDA r : r.date # Undefined), <<>>)

\* ref.monthIndex ?? 0
WeeklyMonthIdx(ref) == IF ref.monthIndex = Undefined THEN 0 ELSE ref.monthIndex
groupWeeklyByMonth(weeklyRefs) == GroupRefs(WeeklyMonthIdx, weeklyRefs, <<>>)

\* the first monthly reference of every month, in order
UniqueMonths(months, unique) ==
  LET Step(acc, m) ==
        IF MapHas(acc, MonthKey(m.date)) THEN acc ELSE MapSet(acc, MonthKey(m.date), m)
  IN ForOf(Step, unique, months)

createIndexPage(s, insertIndex, dims) ==
  LET g == insertPage(s, insertIndex, NewPage("index", <<>>, <<>>))
      topY == dims.HEIGHT - dims.MARGIN - dims.TOOLBAR_HEIGHT
  IN [s EXCEPT !.doc = g.doc, !.drawn = g.drawn,
               !.page = getPage(g.doc, insertIndex), !.y = topY - 30]

\* every index page inserted at insertOffset, in front of the earlier ones
NewIndexPageInFront(s, dims, insertOffset, label) ==
  LET s1 == createIndexPage(s, insertOffset, dims)
  IN [s1 EXCEPT !.indexRefs = Append(s.indexRefs,
                   PageRef(<<label, s.count + 1>>, insertOffset + s.count, "index",
                           Undefined, Undefined, Undefined, NoKey, s1.page)),
                !.count = s.count + 1]

\* state = createIndexPage(..., insertOffset + indexPageCount, ...);
\* indexRefs.push({ ..., pageIndex: insertOffset + indexPageCount, type: 'index' });
\* indexPageCount++
NewIndexPage(s, dims, insertOffset, label) ==
  LET s1 == createIndexPage(s, insertOffset + s.count, dims)
  IN [s1 EXCEPT !.indexRefs = Append(s.indexRefs,
                   PageRef(<<label, s.count + 1>>, insertOffset + s.count, "index",
                           Undefined, Undefined, Undefined, NoKey, s1.page)),
                !.count = s.count + 1]

\* a helper that takes the index to be one page long whenever it links
addLinkOneIndexPage(s, y, h, targetRef) ==
  [s EXCEPT !.links = Append(@,
      [kind |-> "index", src |-> s.page,
       dst |-> getPage(s.doc, targetRef.pageIndex + 1),
       y |-> y - 2, h |-> h, entry |-> targetRef.page])]

\* the addLink helper: a link on the current index page to the page that is
\* at position targetIdx + indexPageCount when the link is made
addLink(s, y, h, targetRef) ==
  [s EXCEPT !.links = Append(@,
      [kind |-> "index", src |-> s.page,
       dst |-> getPage(s.doc, targetRef.pageIndex + s.count),
       y |-> y - 2, h |-> h, entry |-> targetRef.page])]

\* addLink(x, state.y, w, h, ref.pageIndex)
addLinkHere(s, h, targetRef) == addLink(s, s.y, h, targetRef)

\* state.y -= dy
MoveDown(s, dy) == [s EXCEPT !.y = @ - dy]

\* if (state.y < limit) { state = createIndexPage(...); indexRefs.push(...);
\* indexPageCount++ }
EnsureRoom(s, limit, dims, insertOffset, label) ==
  IF s.y < limit THEN NewIndexPage(s, dims, insertOffset, label) ELSE s

\* if (refs.length > 0) addLink(x, state.y, ..., 12, refs[0].pageIndex)
FirstRefLink(s, refs) == IF refs # <<>> THEN addLinkHere(s, 12, refs[1]) ELSE s

\* the Key and Future Log line
KeyFutureLine(s, keyRefs, futureRefs) ==
  IF keyRefs # <<>> \/ futureRefs # <<>>
  THEN MoveDown(FirstRefLink(FirstRefLink(s, keyRefs), futureRefs), 20)
  ELSE s

\* for (const weekRef of monthWeeks)
WeekLinks(s, monthWeeks) ==
  ForOf(LAMBDA acc, weekRef : addLinkHere(acc, 10, weekRef), s, monthWeeks)

\* weeklyByMonth.get(monthIdx) || []
WeeksOfMonth(weeklyByMonth, monthIdx) ==
  IF MapHas(weeklyByMonth, monthIdx) THEN MapGet(weeklyByMonth, monthIdx) ELSE <<>>

\* one row of the table: the month link, its week links, then
\* state.y -= 4; state.y -= rowHeight - 10
MonthRow(s, ref, weeklyByMonth) ==
  MoveDown(WeekLinks(addLinkHere(s, 12, ref), WeeksOfMonth(weeklyByMonth, getMonth(ref.date))),
           4 + (28 - 10))

\* for (const [, { date, ref }] of uniqueMonths)
MonthRows(s, dims, insertOffset, unique, weeklyByMonth) ==
  ForOf(LAMBDA acc, entry :
          MonthRow(EnsureRoom(acc, dims.MARGIN + 30, dims, insertOffset, "Index"),
                   entry[2], weeklyByMonth),
        s, unique)

\* the Monthly + Weekly table with its header
MonthlyTable(s, dims, insertOffset, monthlyRefs, weeklyRefs) ==
  IF monthlyRefs # <<>> \/ weeklyRefs # <<>>
  THEN MonthRows(MoveDown(s, 5 + 15), dims, insertOffset,
                 UniqueMonths(SelectSeq(monthlyRefs, LAMBDA r : r.date # Undefined), <<>>),
                 groupWeeklyByMonth(weeklyRefs))
  ELSE s

\* if (i > 0 && col === 0) state.y -= 14
NextRow(s, i, maxDaysPerRow) ==
  IF i > 0 /\ i % maxDaysPerRow = 0 THEN MoveDown(s, 14) ELSE s

\* addLink(dx - 2, state.y - 2, dayNumWidth, 12, dayRef.pageIndex)
DayLinkAt(s, dayRef) == addLink(s, s.y - 2, 12, dayRef)

\* for (let i = 0; i < days.length; i++): the day numbers of one month
DayLinks(s, days, maxDaysPerRow) ==
  ForOf(LAMBDA acc, i : DayLinkAt(NextRow(acc, i, maxDaysPerRow), days[i + 1]),
        s, [k \in 1..Len(days) |-> k - 1])

\* the block of one month: label line, day numbers, spacing
DailyBlock(s, dims, days) ==
  MoveDown(DayLinks(MoveDown(s, 14), days, (dims.WIDTH - 2 * dims.MARGIN) \div 16), 6 + 14)

\* for (const [, days] of dailyByMonth)
DailyBlocks(s, dims, insertOffset, dailyByMonth) ==
  ForOf(LAMBDA acc, entry :
          DailyBlock(EnsureRoom(acc, dims.MARGIN + 30 + 42, dims, insertOffset, "Index - Daily"),
                     dims, entry[2]),
        s, dailyByMonth)

\* the daily logs, always on an index page of their own
DailySection(s, dims, insertOffset, dailyRefs) ==
  IF dailyRefs # <<>>
  THEN DailyBlocks(MoveDown(NewIndexPage(s, dims, insertOffset, "Index - Daily"), 18),
                   dims, insertOffset, groupDailyByMonth(dailyRefs))
  ELSE s

\* cx += 14; if (cx > WIDTH - MARGIN - 20) { cx = MARGIN; state.y -= 12 }
PlaceNext(s, cx1, dims) ==
  IF cx1 > dims.WIDTH - dims.MARGIN - 20
  THEN [s |-> MoveDown(s, 12), cx |-> dims.MARGIN]
  ELSE [s |-> s, cx |-> cx1]

\* for (let i = 0; i < collectionRefs.length; i++), cx the pen's x
CollectionLinks(s, dims, collectionRefs) ==
  ForOf(LAMBDA acc, ref : PlaceNext(addLinkHere(acc.s, 10, ref), acc.cx + 14, dims),
        [s |-> s, cx |-> dims.MARGIN], collectionRefs).s

\* the collections
CollectionSection(s, dims, insertOffset, collectionRefs) ==
  IF collectionRefs # <<>>
  THEN CollectionLinks(MoveDown(EnsureRoom(s, dims.MARGIN + 30 + 50, dims, insertOffset, "Index"),
                                15),
                       dims, collectionRefs)
  ELSE s

\* the builder's state before the first index page
IndexState(g) ==
  [doc |-> g.doc, drawn |-> g.drawn, page |-> Undefined, y |-> 0, count |-> 0,
   indexRefs |-> <<>>, links |-> <<>>]

\* return { pageCount: indexPageCount, indexRefs }, with the document
IndexResult(s) ==
  [doc |-> s.doc, drawn |-> s.drawn, links |-> s.links, pageCount |-> s.count,
   indexRefs |-> s.indexRefs]

addBujoIndex(g, pageRefs, dims, insertOffset) ==
  LET s0 == NewIndexPage(IndexState(g), dims, insertOffset, "Index")
      s1 == KeyFutureLine(s0, FilterType(pageRefs, "key"), FilterType(pageRefs, "future"))
      s2 == MonthlyTable(s1, dims, insertOffset, FilterType(pageRefs, "monthly"),
                         FilterType(pageRefs, "weekly"))
      s3 == DailySection(s2, dims, insertOffset, FilterType(pageRefs, "daily"))
      s4 == CollectionSection(s3, dims, insertOffset, FilterType(pageRefs, "collection"))
  IN IndexResult(s4)

(***************************************************************************)
(* The page registry and the navigation resolver (bujo/navigation.ts).     *)
(***************************************************************************)
PageTypes == {"key", "future", "monthly", "monthly-tasks", "weekly", "daily",
              "collection", "index"}

EmptyRegistry(indexPageIndex) ==
  [indexPage |-> indexPageIndex, futureLogPages |-> <<>>, monthlyCalPages |-> <<>>,
   monthlyTasksPages |-> <<>>, weeklyPages |-> <<>>, dailyPages |-> <<>>,
   collectionPages |-> <<>>, keyPage |-> Undefined,
   pagesByType |-> [t \in PageTypes |-> <<>>]]

\* a loop body without the guards on the keys: a reference is put in the
\* keyed map of its type under whatever key it carries
RegisterRefUnguarded(reg, ref) ==
  LET r1 == IF ref.type \in DOMAIN reg.pagesByType
            THEN [reg EXCEPT !.pagesByType[ref.type] = Append(@, ref.pageIndex)]
            ELSE reg
  IN CASE ref.type = "key" -> [r1 EXCEPT !.keyPage = ref.pageIndex]
       [] ref.type = "future" -> [r1 EXCEPT !.futureLogPages = Append(@, ref.pageIndex)]
       [] ref.type = "monthly" ->
            [r1 EXCEPT !.monthlyCalPages = MapSet(@, ref.yearMonth, ref.pageIndex)]
       [] ref.type = "monthly-tasks" ->
            [r1 EXCEPT !.monthlyTasksPages = MapSet(@, ref.yearMonth, ref.pageIndex)]
       [] ref.type = "weekly" ->
            [r1 EXCEPT !.weeklyPages = MapSet(@, ref.weekIndex, ref.pageIndex)]
       [] ref.type = "daily" ->
            [r1 EXCEPT !.dailyPages = MapSet(@, formatDateKey(ref.date), ref.pageIndex)]
       [] ref.type = "collection" -> [r1 EXCEPT !.collectionPages = Append(@, ref.pageIndex)]
       [] OTHER -> r1

\* the body of the loop of buildPageRegistry for one reference
RegisterRef(reg, ref) ==
  LET r1 == IF ref.type \in DOMAIN reg.pagesByType
            THEN [reg EXCEPT !.pagesByType[ref.type] = Append(@, ref.pageIndex)]
            ELSE reg
  IN CASE ref.type = "key" -> [r1 EXCEPT !.keyPage = ref.pageIndex]
       [] ref.type = "future" -> [r1 EXCEPT !.futureLogPages = Append(@, ref.pageIndex)]
       [] ref.type = "monthly" ->
            IF ref.yearMonth # NoKey
            THEN [r1 EXCEPT !.monthlyCalPages = MapSet(@, ref.yearMonth, ref.pageIndex)]
            ELSE r1
       [] ref.type = "monthly-tasks" ->
            IF ref.yearMonth # NoKey
            THEN [r1 EXCEPT !.monthlyTasksPages = MapSet(@, ref.yearMonth, ref.pageIndex)]
            ELSE r1
       [] ref.type = "weekly" ->
            IF ref.weekIndex # Undefined
            THEN [r1 EXCEPT !.weeklyPages = MapSet(@, ref.weekIndex, ref.pageIndex)]
            ELSE r1
       [] ref.type = "daily" ->
            IF ref.date # Undefined
            THEN [r1 EXCEPT !.dailyPages = MapSet(@, formatDateKey(ref.date), ref.pageIndex)]
            ELSE r1
       [] ref.type = "collection" -> [r1 EXCEPT !.collectionPages = Append(@, ref.pageIndex)]
       [] OTHER -> r1

buildPageRegistry(pageRefs, indexPageIndex) ==
  ForOf(RegisterRef, EmptyRegistry(indexPageIndex), pageRefs)

NavItem(label, targetType, targetKey) ==
  [label |-> label, targetType |-> targetType, targetKey |-> targetKey]

getNavItemsForPage(ref, reg) ==
  LET yearMonth == IF ref.yearMonth # NoKey THEN ref.yearMonth
                   ELSE IF ref.date # Undefined THEN formatYearMonth(ref.date) ELSE NoKey
      weekIndex == IF ref.weekIndex # Undefined THEN numToString(ref.weekIndex) ELSE NoKey
      hasFutureLog == Len(reg.futureLogPages) > 0
      hasMonthlyLog == Len(reg.monthlyCalPages) > 0
      hasWeeklyReview == Len(reg.weeklyPages) > 0
      future == IF hasFutureLog THEN <<NavItem("Future Log", "future", NoKey)>> ELSE <<>>
      index == <<NavItem("Index", "index", NoKey)>>
      prev == <<NavItem("<", "prev", NoKey)>>
      next == <<NavItem(">", "next", NoKey)>>
      monthlyTasks == IF hasMonthlyLog
                      THEN <<NavItem("Monthly", "monthly", yearMonth),
                             NavItem("Tasks", "monthly-tasks", yearMonth)>>
                      ELSE <<>>
  IN CASE ref.type = "daily" ->
            index \o future \o monthlyTasks
            \o (IF hasWeeklyReview THEN <<NavItem("Weekly", "weekly", weekIndex)>> ELSE <<>>)
       [] ref.type = "weekly" -> prev \o index \o future \o monthlyTasks \o next
       [] ref.type = "monthly" ->
            prev \o index \o future \o <<NavItem("Tasks", "monthly-tasks", yearMonth)>> \o next
       [] ref.type = "monthly-tasks" ->
            prev \o index \o future \o <<NavItem("Calendar", "monthly", yearMonth)>> \o next
       [] ref.type = "future" -> index
       [] ref.type = "key" -> index \o future
       [] ref.type = "collection" -> prev \o index \o next
       [] ref.type = "index" -> future
       [] OTHER -> <<>>

\* Array.prototype.indexOf: the first position (0-based) of v, or -1
indexOf(list, v) ==
  IF \E i \in 1..Len(list) : list[i] = v
  THEN (CHOOSE i \in 1..Len(list) : list[i] = v /\ \A j \in 1..(i - 1) : list[j] # v) - 1
  ELSE -1

\* a resolver whose prev and next wrap around at the ends of a type
resolveNavTargetWrap(item, ref, reg) ==
  CASE item.targetType = "index" -> reg.indexPage
    [] item.targetType = "future" ->
         IF Len(reg.futureLogPages) > 0 THEN reg.futureLogPages[1] ELSE Undefined
    [] item.targetType = "monthly" ->
         IF item.targetKey # NoKey THEN MapGet(reg.monthlyCalPages, item.targetKey)
         ELSE Undefined
    [] item.targetType = "monthly-tasks" ->
         IF item.targetKey # NoKey THEN MapGet(reg.monthlyTasksPages, item.targetKey)
         ELSE Undefined
    [] item.targetType = "weekly" ->
         IF item.targetKey # NoKey THEN MapGet(reg.weeklyPages, parseInt(item.targetKey))
         ELSE Undefined
    [] item.targetType \in {"prev", "next"} ->
         IF ref.type \notin DOMAIN reg.pagesByType THEN Undefined
         ELSE LET typePages == reg.pagesByType[ref.type]
                  idx == indexOf(typePages, ref.pageIndex)
              IN IF idx = -1 THEN Undefined
                 ELSE IF item.targetType = "prev"
                      THEN typePages[((idx - 1 + Len(typePages)) % Len(typePages)) + 1]
                 ELSE typePages[((idx + 1) % Len(typePages)) + 1]
    [] OTHER -> Undefined

resolveNavTarget(item, ref, reg) ==
  CASE item.targetType = "index" -> reg.indexPage
    [] item.targetType = "future" ->
         IF Len(reg.futureLogPages) > 0 THEN reg.futureLogPages[1] ELSE Undefined
    [] item.targetType = "monthly" ->
         IF item.targetKey # NoKey THEN MapGet(reg.monthlyCalPages, item.targetKey)
         ELSE Undefined
    [] item.targetType = "monthly-tasks" ->
         IF item.targetKey # NoKey THEN MapGet(reg.monthlyTasksPages, item.targetKey)
         ELSE Undefined
    [] item.targetType = "weekly" ->
         IF item.targetKey # NoKey THEN MapGet(reg.weeklyPages, parseInt(item.targetKey))
         ELSE Undefined
    [] item.targetType \in {"prev", "next"} ->
         IF ref.type \notin DOMAIN reg.pagesByType THEN Undefined
         ELSE LET typePages == reg.pagesByType[ref.type]
                  idx == indexOf(typePages, ref.pageIndex)
              IN IF idx = -1 THEN Undefined
                 ELSE IF item.targetType = "prev" /\ idx > 0 THEN typePages[idx]
                 ELSE IF item.targetType = "next" /\ idx < Len(typePages) - 1
                      THEN typePages[idx + 2]
                 ELSE Undefined
    [] OTHER -> Undefined

RECURSIVE NavLinksOfRefCompact(_, _, _, _, _, _)
\* an inner loop that advances navX only over the items it links
NavLinksOfRefCompact(d, ref, reg, navItems, i, navX) ==
  IF i > Len(navItems) THEN <<>>
  ELSE LET item == navItems[i]
           textWidth == widthOfTextAtSize(item.label, 7)
           targetPage == resolveNavTarget(item, ref, reg)
           sep == IF i < Len(navItems) THEN widthOfTextAtSize("  |  ", 7) ELSE 0
       IN IF targetPage # Undefined
          THEN <<[kind |-> "nav", src |-> getPage(d, ref.pageIndex),
                  dst |-> getPage(d, targetPage), label |-> item.label,
                  x |-> navX, ref |-> ref]>>
               \o NavLinksOfRefCompact(d, ref, reg, navItems, i + 1, navX + textWidth + sep)
          ELSE NavLinksOfRefCompact(d, ref, reg, navItems, i + 1, navX)

RECURSIVE NavLinksOfRef(_, _, _, _, _, _)
\* the inner loop of addComprehensiveNavigation: the links made for one
\* reference; navX advances over every item, linked or not
NavLinksOfRef(d, ref, reg, navItems, i, navX) ==
  IF i > Len(navItems) THEN <<>>
  ELSE LET item == navItems[i]
           textWidth == widthOfTextAtSize(item.label, 7)
           targetPage == resolveNavTarget(item, ref, reg)
           sep == IF i < Len(navItems) THEN widthOfTextAtSize("  |  ", 7) ELSE 0
           made == IF targetPage # Undefined
                   THEN <<[kind |-> "nav", src |-> getPage(d, ref.pageIndex),
                           dst |-> getPage(d, targetPage), label |-> item.label,
                           x |-> navX, ref |-> ref]>>
                   ELSE <<>>
       IN made \o NavLinksOfRef(d, ref, reg, navItems, i + 1, navX + textWidth + sep)

\* for (const ref of pageRefs): the links made, in order
addComprehensiveNavigation(d, dims, pageRefs, reg) ==
  LET Step(acc, ref) ==
        acc \o NavLinksOfRef(d, ref, reg, getNavItemsForPage(ref, reg), 1,
                             dims.padding.left * 1000)
  IN ForOf(Step, <<>>, pageRefs)

(***************************************************************************)
(* Calendar date links (addMonthlyDateLinks).                              *)
(***************************************************************************)
\* the part of s before the first '-' and the part after it
BeforeDash(s) ==
  IF \E i \in 1..Len(s) : s[i] = "-"
  THEN SubSeq(s, 1, (CHOOSE i \in 1..Len(s) : s[i] = "-" /\ \A j \in 1..(i - 1) : s[j] # "-") - 1)
  ELSE s
AfterDash(s) ==
  IF \E i \in 1..Len(s) : s[i] = "-"
  THEN SubSeq(s, (CHOOSE i \in 1..Len(s) : s[i] = "-" /\ \A j \in 1..(i - 1) : s[j] # "-") + 1, Len(s))
  ELSE <<>>

\* a date key whose day is not padded to two digits
DateKeyOfUnpadded(year, month, day) ==
  numToString(year) \o <<"-">> \o PadStart2(numToString(month + 1))
    \o <<"-">> \o numToString(day)

\* `${year}-${pad(month + 1)}-${pad(day)}`
DateKeyOf(year, month, day) ==
  numToString(year) \o <<"-">> \o PadStart2(numToString(month + 1))
    \o <<"-">> \o PadStart2(numToString(day))

\* a content top computed with the default title size of drawPageTitle
LinkContentTopDefaultTitle(dims) == ((dims.HEIGHT - dims.padding.top - 7 - 2) - 7 - 6) - 10 - 8

\* navReturnY - titleFontSize - 8, with navY = HEIGHT - padding.top - navFontSize - 2
\* and navReturnY = navY - navFontSize - 6
LinkContentTop(dims) == ((dims.HEIGHT - dims.padding.top - 7 - 2) - 7 - 6) - 11 - 8

\* the links for the days first .. first + count - 1 on one calendar page;
\* y is the row's y as the loop has it (the rectangle starts at y - 2)
DayRowLinks(d, reg, pageRef, year, month, first, count, contentTop, lineHeight) ==
  LET linked == SelectSeq([i \in 1..count |-> first + i - 1],
                          LAMBDA day : MapGet(reg.dailyPages, DateKeyOf(year, month, day)) # Undefined)
  IN [i \in 1..Len(linked) |->
        [kind |-> "date", src |-> getPage(d, pageRef.pageIndex),
         dst |-> getPage(d, MapGet(reg.dailyPages, DateKeyOf(year, month, linked[i]))),
         key |-> DateKeyOf(year, month, linked[i]), day |-> linked[i],
         y |-> RowY(contentTop, lineHeight, linked[i] - first)]]

RECURSIVE SplitPagesLinks(_, _, _, _, _, _, _, _, _, _, _)
\* for (const pageRef of monthPages) in the split layout
SplitPagesLinks(d, dims, density, reg, monthPages, i, year, month, daysInMonth, daysPerPage, dayIndex) ==
  IF i > Len(monthPages) THEN <<>>
  ELSE LET daysOnThisPage == Min(daysPerPage, daysInMonth - dayIndex + 1)
           count == Max(0, Min(daysOnThisPage, daysInMonth - dayIndex + 1))
           lineHeight == QuotMax(Quot(MinLineHeight(density), 1),
                                 Quot(AvailableHeight(dims), daysOnThisPage))
       IN DayRowLinks(d, reg, monthPages[i], year, month, dayIndex, count,
                      LinkContentTop(dims), lineHeight)
          \o SplitPagesLinks(d, dims, density, reg, monthPages, i + 1, year, month,
                             daysInMonth, daysPerPage, dayIndex + count)

\* monthPages.length > 1 || (daysInMonth * preferredLineHeight > availableHeight)
IsSplitLayout(dims, density, daysInMonth, monthPages) ==
  Len(monthPages) > 1 \/ daysInMonth * density.lineHeight > AvailableHeight(dims)

MonthDateLinks(d, dims, density, reg, yearMonth, monthPages) ==
  LET year == parseInt(BeforeDash(yearMonth))
      month == parseInt(BeforeDash(AfterDash(yearMonth))) - 1
      daysInMonth == DaysInMonthOf(year, month + 1)
      daysPerPage == AvailableHeight(dims) \div MinLineHeight(density)
      isSplitLayout == IsSplitLayout(dims, density, daysInMonth, monthPages)
  IN IF isSplitLayout
     THEN SplitPagesLinks(d, dims, density, reg, monthPages, 1, year, month, daysInMonth,
                          daysPerPage, 1)
     ELSE DayRowLinks(d, reg, monthPages[1], year, month, 1, daysInMonth, LinkContentTop(dims),
                      QuotMin(Quot(density.lineHeight, 1),
                              Quot(LinkContentTop(dims) - dims.padding.bottom - 10, daysInMonth)))

RefYearMonth(ref) == ref.yearMonth

\* for (const [yearMonth, monthPages] of monthlyPagesByYearMonth)
AllMonthDateLinks(d, dims, density, reg, byYearMonth) ==
  LET Step(acc, entry) == acc \o MonthDateLinks(d, dims, density, reg, entry[1], entry[2])
  IN ForOf(Step, <<>>, byYearMonth)

addMonthlyDateLinks(d, dims, pageRefs, reg, density) ==
  LET monthlyRefs == FilterType(pageRefs, "monthly")
  IN IF monthlyRefs = <<>> THEN <<>>
     ELSE AllMonthDateLinks(d, dims, density, reg,
            GroupRefs(RefYearMonth, SelectSeq(monthlyRefs, LAMBDA r : r.yearMonth # NoKey), <<>>))

(***************************************************************************)
(* Basic navigation of documents without a bujo index (hyperlinks.ts).     *)
(***************************************************************************)
addNavigationLinks(d, pageIndex, totalPages, tocIndex) ==
  (IF pageIndex > 0
   THEN <<[kind |-> "basic", src |-> getPage(d, pageIndex), dst |-> getPage(d, pageIndex - 1)]>>
   ELSE <<>>)
  \o (IF tocIndex >= 0
      THEN <<[kind |-> "basic", src |-> getPage(d, pageIndex), dst |-> getPage(d, tocIndex)]>>
      ELSE <<>>)
  \o (IF pageIndex < totalPages - 1
      THEN <<[kind |-> "basic", src |-> getPage(d, pageIndex), dst |-> getPage(d, pageIndex + 1)]>>
      ELSE <<>>)

\* for (let i = 0; i < totalPages; i++) addNavigationLinks(..., i, totalPages, ...)
BasicNavigation(d, tocIndex) ==
  LET Step(acc, i) == acc \o addNavigationLinks(d, i, Len(d), tocIndex)
  IN ForOf(Step, <<>>, [k \in 1..Len(d) |-> k - 1])

(***************************************************************************)
(* Configurations.                                                         *)
(***************************************************************************)
Devices == {"remarkable2", "paperPro", "move"}
Densities == {"compact", "normal", "comfortable"}

\* the default padding of App.tsx and the largest the form allows
DefaultPadding == [top |-> 40, bottom |-> 24, left |-> 24, right |-> 24]
MaxPadding == [top |-> 80, bottom |-> 80, left |-> 80, right |-> 80]

\* <<device, density, padding>>: every device and density with the default
\* padding, and two page layouts with the largest padding
Layouts ==
  {<<dv, dn, DefaultPadding>> : dv \in Devices, dn \in Densities}
    \cup {<<"move", "comfortable", MaxPadding>>, <<"remarkable2", "compact", MaxPadding>>}

\* <<startDate, endDate>>: a whole month, a month boundary, a year boundary
Ranges ==
  {<<MkDate(2025, 1, 1), MkDate(2025, 1, 31)>>,
   <<MkDate(2025, 1, 30), MkDate(2025, 2, 2)>>,
   <<MkDate(2025, 12, 30), MkDate(2026, 1, 3)>>}

\* the default range of App.tsx: startOfYear .. endOfYear
YearRanges == {<<MkDate(2025, 1, 1), MkDate(2025, 12, 31)>>}

FutureLogChoices == {<<FALSE, 6>>, <<TRUE, 6>>}

Config(device, density, padding, range, weekends, index, key, future, monthly, weekly, daily, collections) ==
  [type |-> "bujo", device |-> device, density |-> density, padding |-> padding,
   startDate |-> range[1], endDate |-> range[2], includeWeekends |-> weekends,
   includeIndex |-> index, showBulletKey |-> key, includeFutureLog |-> future[1],
   futureLogMonths |-> future[2], includeMonthlyLog |-> monthly,
   includeWeeklyReview |-> weekly, includeDailyLog |-> daily,
   includeCollectionPages |-> collections]

ConfigSpace ==
  {Config(ly[1], ly[2], ly[3], rg, we, ix, ky, fu, mo, wk, da, co) :
     ly \in Layouts, rg \in Ranges,
     we \in BOOLEAN, ix \in BOOLEAN, ky \in BOOLEAN, fu \in FutureLogChoices,
     mo \in BOOLEAN, wk \in BOOLEAN, da \in BOOLEAN, co \in 0..MaxCollections}

YearConfigSpace ==
  {Config("move", dn, DefaultPadding, rg, we, ix, ky, <<TRUE, 6>>, mo, TRUE, TRUE, co) :
     dn \in {"compact", "normal"}, rg \in YearRanges, we \in BOOLEAN, ix \in BOOLEAN,
     ky \in BOOLEAN, mo \in BOOLEAN, co \in 0..MaxCollections}

(***************************************************************************)
(* generatePlannerPDF, one action per stage.                               *)
(***************************************************************************)
\* the locals of a call that has not started
FreshCall ==
  [pc |-> "cover", doc |-> <<>>, drawn |-> <<>>, bujoPageRefs |-> <<>>, indexRefs |-> <<>>,
   indexPageCount |-> 0, tocPageIndex |-> -1, allRefs |-> <<>>,
   registry |-> EmptyRegistry(Undefined), links |-> <<>>, shifts |-> 0]

\* no second call
NoCall == [FreshCall EXCEPT !.pc = "none"]

\* the configurations the component is rendered with, in turn: the key
\* stands for the JSON of the configuration, numPages for the page count of
\* its document
PreviewConfigs == <<[key |-> "a", numPages |-> 1], [key |-> "b", numPages |-> 3],
                    [key |-> "a", numPages |-> 1]>>

\* useState({ pages: [], pageLinks: [], currentPage: 0, totalPages: 0,
\* isLoading: false, error: null }); the useRef(null) and useRef(0) refs
HookMounted ==
  /\ state = [pages |-> <<>>, pageLinks |-> <<>>, currentPage |-> 0, totalPages |-> 0,
              isLoading |-> FALSE, error |-> FALSE]
  /\ abortController = 0
  /\ controllers = <<>>
  /\ pdfRef = 0
  /\ previousPageRef = 0
  /\ gens = <<>>
  /\ mounted = TRUE
  /\ configRef = PreviewConfigs[1]
  /\ timers = <<"pending">>
  /\ debounceTimeout = 1
  /\ renderingPage = Undefined
  /\ loads = {}

Start(configs) ==
  /\ other = NoCall
  /\ active = 1
  /\ HookMounted
  /\ cfg \in configs
  /\ pc = "cover"
  /\ doc = <<>>
  /\ drawn = <<>>
  /\ bujoPageRefs = <<>>
  /\ indexRefs = <<>>
  /\ indexPageCount = 0
  /\ tocPageIndex = -1
  /\ allRefs = <<>>
  /\ registry = EmptyRegistry(Undefined)
  /\ links = <<>>
  /\ shifts = 0

Init == Start(ConfigSpace)
InitYear == Start(YearConfigSpace)

G == [doc |-> doc, drawn |-> drawn]

\* pageRefs.push(...r.refs) after a generator ran
Generated(r, nextPc) ==
  /\ doc' = r.doc
  /\ drawn' = r.drawn
  /\ bujoPageRefs' = bujoPageRefs \o r.refs
  /\ pc' = nextPc
  /\ UNCHANGED <<callVars, hookVars, cfg, indexRefs, indexPageCount, tocPageIndex, allRefs, registry, links, shifts>>

Skipped(nextPc) ==
  /\ pc' = nextPc
  /\ UNCHANGED <<callVars, hookVars, cfg, doc, drawn, bujoPageRefs, indexRefs, indexPageCount, tocPageIndex,
                 allRefs, registry, links, shifts>>

GenerateCoverPage ==
  /\ pc = "cover"
  /\ Generated(addPage(G, NewPage("cover", <<>>, <<>>)) @@ [refs |-> <<>>], "key")

GenerateKey ==
  /\ pc = "key"
  /\ IF cfg.showBulletKey
     THEN Generated(generateKeyPage(Ctx(cfg), G), "future")
     ELSE Skipped("future")

GenerateFuture ==
  /\ pc = "future"
  /\ IF cfg.includeFutureLog
     THEN Generated(generateFutureLog(Ctx(cfg), G, cfg.futureLogMonths), "monthly")
     ELSE Skipped("monthly")

GenerateMonthly ==
  /\ pc = "monthly"
  /\ IF cfg.includeMonthlyLog
     THEN Generated(ForEach(generateMonthlyLog, NoSkip, Ctx(cfg), G,
                            eachMonthOfInterval(cfg.startDate, cfg.endDate)), "weekly")
     ELSE Skipped("weekly")

GenerateWeekly ==
  /\ pc = "weekly"
  /\ IF cfg.includeWeeklyReview
     THEN Generated(ForEach(generateWeeklyReview, NoSkip, Ctx(cfg), G,
                            eachWeekOfInterval(cfg.startDate, cfg.endDate)), "daily")
     ELSE Skipped("daily")

GenerateDaily ==
  /\ pc = "daily"
  /\ IF cfg.includeDailyLog
     THEN LET SkipDay(day) == ~cfg.includeWeekends /\ IsWeekend(day)
          IN Generated(ForEach(generateDailyLog, SkipDay, Ctx(cfg), G,
                               eachDayOfInterval(cfg.startDate, cfg.endDate)), "collection")
     ELSE Skipped("collection")

GenerateCollections ==
  /\ pc = "collection"
  /\ IF cfg.includeCollectionPages > 0
     THEN Generated(generateCollectionPages(Ctx(cfg), G, cfg.includeCollectionPages), "index")
     ELSE Skipped("index")

\* the insertOffset argument of the call of addBujoIndex: after the cover
insertOffset == 1

\* tocPageIndex = 1; indexPageCount = indexResult.pageCount
IndexAdded(indexResult) ==
  /\ tocPageIndex' = 1
  /\ doc' = indexResult.doc
  /\ drawn' = indexResult.drawn
  /\ links' = links \o indexResult.links
  /\ indexRefs' = indexResult.indexRefs
  /\ indexPageCount' = indexResult.pageCount
  /\ pc' = "shift"
  /\ UNCHANGED <<callVars, hookVars, cfg, bujoPageRefs, allRefs, registry, shifts>>

\* if (config.includeIndex && pageRefs.length > 0): addBujoIndex(..., 1, ...)
AddIndex ==
  /\ pc = "index"
  /\ IF cfg.includeIndex /\ Len(bujoPageRefs) > 0
     THEN IndexAdded(addBujoIndex(G, bujoPageRefs, getDeviceDimensions(cfg), insertOffset))
     ELSE Skipped("basicNav")

\* a shift that is one page short
ShiftRefsShort(refs, count) ==
  [i \in 1..Len(refs) |-> [refs[i] EXCEPT !.pageIndex = @ + count - 1]]

\* for (const ref of bujoPageRefs) ref.pageIndex += indexPageCount
ShiftRefs(refs, count) ==
  [i \in 1..Len(refs) |-> [refs[i] EXCEPT !.pageIndex = @ + count]]

ShiftPageRefs ==
  /\ pc = "shift"
  /\ bujoPageRefs' = ShiftRefs(bujoPageRefs, indexPageCount)
  /\ shifts' = shifts + 1
  /\ pc' = "registry"
  /\ UNCHANGED <<callVars, hookVars, cfg, doc, drawn, indexRefs, indexPageCount, tocPageIndex, allRefs,
                 registry, links>>

\* allRefs = [...indexResult.indexRefs, ...bujoPageRefs]; buildPageRegistry
BuildRegistry ==
  /\ pc = "registry"
  /\ allRefs' = indexRefs \o bujoPageRefs
  /\ registry' = buildPageRegistry(indexRefs \o bujoPageRefs, tocPageIndex)
  /\ pc' = "navigation"
  /\ UNCHANGED <<callVars, hookVars, cfg, doc, drawn, bujoPageRefs, indexRefs, indexPageCount, tocPageIndex,
                 links, shifts>>

\* a navigation pass that applies the shift a second time
AddNavigationShiftAgain ==
  /\ pc = "navigation"
  /\ links' = links \o addComprehensiveNavigation(doc, getDeviceDimensions(cfg), allRefs,
                                                   registry)
  /\ bujoPageRefs' = ShiftRefs(bujoPageRefs, indexPageCount)
  /\ allRefs' = indexRefs \o ShiftRefs(bujoPageRefs, indexPageCount)
  /\ shifts' = shifts + 1
  /\ pc' = "dateLinks"
  /\ UNCHANGED <<callVars, hookVars, cfg, doc, drawn, indexRefs, indexPageCount, tocPageIndex, registry>>

AddNavigation ==
  /\ pc = "navigation"
  /\ links' = links \o addComprehensiveNavigation(doc, getDeviceDimensions(cfg), allRefs,
                                                   registry)
  /\ pc' = "dateLinks"
  /\ UNCHANGED <<callVars, hookVars, cfg, doc, drawn, bujoPageRefs, indexRefs, indexPageCount, tocPageIndex,
                 allRefs, registry, shifts>>

AddDateLinks ==
  /\ pc = "dateLinks"
  /\ links' = links \o addMonthlyDateLinks(doc, getDeviceDimensions(cfg), allRefs, registry,
                                            DENSITY_CONFIGS[cfg.density])
  /\ pc' = "save"
  /\ UNCHANGED <<callVars, hookVars, cfg, doc, drawn, bujoPageRefs, indexRefs, indexPageCount, tocPageIndex,
                 allRefs, registry, shifts>>

\* the basic navigation of a document without a bujo index
AddBasicNavigation ==
  /\ pc = "basicNav"
  /\ links' = IF Len(bujoPageRefs) > 0
              THEN links \o BasicNavigation(doc, tocPageIndex)
              ELSE links
  /\ pc' = "save"
  /\ UNCHANGED <<callVars, hookVars, cfg, doc, drawn, bujoPageRefs, indexRefs, indexPageCount, tocPageIndex,
                 allRefs, registry, shifts>>

Save ==
  /\ pc = "save"
  /\ Skipped("done")

Next ==
  \/ GenerateCoverPage
  \/ GenerateKey
  \/ GenerateFuture
  \/ GenerateMonthly
  \/ GenerateWeekly
  \/ GenerateDaily
  \/ GenerateCollections
  \/ AddIndex
  \/ ShiftPageRefs
  \/ BuildRegistry
  \/ AddNavigation
  \/ AddDateLinks
  \/ AddBasicNavigation
  \/ Save

Spec == Init /\ [][Next]_vars
SpecYear == InitYear /\ [][Next]_vars

(***************************************************************************)
(* Properties.                                                             *)
(***************************************************************************)
\* the index branch, once the shift has been applied
Shifted == tocPageIndex = 1 /\ pc \in {"registry", "navigation", "dateLinks", "save", "done"}

\* the list handed to buildPageRegistry
RegistryInput == IF pc = "registry" THEN indexRefs \o bujoPageRefs ELSE allRefs

ContentRefs == SelectSeq(RegistryInput, LAMBDA r : r.type # "index")

\* C1: with M >= 1 index pages inserted at insertOffset, the content reference
\* whose page was the i-th content page (i from 0; the content pages are the
\* pages created after the cover, so i = page - 1) has
\* pageIndex = insertOffset + M + i in the list handed to buildPageRegistry.
C1_IndexShift ==
  (Shifted /\ indexPageCount >= 1) =>
    \A k \in 1..Len(ContentRefs) :
      ContentRefs[k].pageIndex = insertOffset + indexPageCount + (ContentRefs[k].page - 1)

\* the scenario of the specification: a key page first, an index of two
\* pages, the key page's final pageIndex is 3
C1_Witness ==
  /\ Shifted
  /\ indexPageCount = 2
  /\ Len(ContentRefs) >= 4
  /\ ContentRefs[1].type = "key" /\ ContentRefs[1].pageIndex = 3
  /\ \E k \in 1..Len(ContentRefs) : ContentRefs[k].type = "monthly"

\* C2: after index insertion and shift, every reference handed to
\* buildPageRegistry has as pageIndex the position, in the final document, of
\* the page created for it; the index references are at the consecutive
\* positions insertOffset .. insertOffset + M - 1 and there are pageCount of
\* them.
C2_TruePosition ==
  Shifted =>
    /\ \A k \in 1..Len(RegistryInput) :
         /\ RegistryInput[k].pageIndex \in 0..(Len(doc) - 1)
         /\ getPage(doc, RegistryInput[k].pageIndex) = RegistryInput[k].page
    /\ Len(indexRefs) = indexPageCount
    /\ \A j \in 1..Len(indexRefs) :
         /\ indexRefs[j].pageIndex = insertOffset + j - 1
         /\ drawn[getPage(doc, insertOffset + j - 1) + 1].type = "index"
    /\ \A q \in 0..(Len(doc) - 1) :
         drawn[getPage(doc, q) + 1].type = "index"
           => q \in insertOffset..(insertOffset + indexPageCount - 1)

\* several index pages, and a daily page behind them
C2_Witness ==
  /\ Shifted
  /\ indexPageCount >= 2
  /\ Len(ContentRefs) >= 3
  /\ \E k \in 1..Len(RegistryInput) :
       RegistryInput[k].type = "daily" /\ RegistryInput[k].pageIndex > insertOffset + 2

\* the index branch, once the registry has been built
RegistryBuilt == tocPageIndex = 1 /\ pc \in {"navigation", "dateLinks", "save", "done"}
\* ... once the navigation pass has run
NavigationDone == tocPageIndex = 1 /\ pc \in {"dateLinks", "save", "done"}
\* ... once the date links have been made
DateLinksDone == tocPageIndex = 1 /\ pc \in {"save", "done"}

\* the positions in allRefs of the calendar references of one month
CalendarRefsOf(yearMonth) ==
  {k \in 1..Len(allRefs) : allRefs[k].type = "monthly" /\ allRefs[k].yearMonth = yearMonth}

SetMin(S) == CHOOSE x \in S : \A y \in S : x <= y

\* C3: for a month whose calendar is split over several 'monthly' pages,
\* monthlyCalPages holds, under the month's yearMonth, the FIRST calendar
\* page of the month, and pagesByType['monthly'] lists every calendar page
\* in order.
C3_FirstCalendarPageWins ==
  RegistryBuilt =>
    /\ \A k \in 1..Len(allRefs) :
         (allRefs[k].type = "monthly" /\ Cardinality(CalendarRefsOf(allRefs[k].yearMonth)) > 1)
           => MapGet(registry.monthlyCalPages, allRefs[k].yearMonth)
                = allRefs[SetMin(CalendarRefsOf(allRefs[k].yearMonth))].pageIndex
    /\ LET cal == FilterType(allRefs, "monthly")
       IN /\ Len(registry.pagesByType["monthly"]) = Len(cal)
          /\ \A i \in 1..Len(cal) : registry.pagesByType["monthly"][i] = cal[i].pageIndex

\* the days drawn on the page of a calendar reference
DaysDrawnOn(ref) == {drawn[ref.page + 1].days[i] : i \in 1..Len(drawn[ref.page + 1].days)}

\* the date links made on page src over day
DateLinksOver(src, day) ==
  {i \in 1..Len(links) : links[i].kind = "date" /\ links[i].src = src /\ links[i].day = day}

\* the daily references of a date
DailyRefsOf(date) == {j \in 1..Len(allRefs) : allRefs[j].type = "daily" /\ allRefs[j].date = date}

\* C4: for every generated month and every day d of it with a daily page,
\* the calendar page on which d was drawn carries one date link over d, to
\* the page at the final pageIndex of the daily page of d's date; a day with
\* no daily page gets no date link; no date link is made elsewhere.
C4_DateLinkRoundTrip ==
  DateLinksDone =>
    /\ \A k \in 1..Len(allRefs) :
         allRefs[k].type = "monthly" =>
           \A day \in DaysDrawnOn(allRefs[k]) :
             LET date == MkDate(getFullYear(allRefs[k].date), getMonth(allRefs[k].date) + 1, day)
                 made == DateLinksOver(allRefs[k].page, day)
             IN IF DailyRefsOf(date) # {}
                THEN /\ Cardinality(made) = 1
                     /\ \A i \in made : \A j \in DailyRefsOf(date) :
                          links[i].dst = getPage(doc, allRefs[j].pageIndex)
                ELSE made = {}
    /\ \A i \in 1..Len(links) :
         links[i].kind = "date" =>
           \E k \in 1..Len(allRefs) :
             /\ allRefs[k].type = "monthly" /\ allRefs[k].page = links[i].src
             /\ links[i].day \in DaysDrawnOn(allRefs[k])

\* weekends excluded, and a date link on the continuation page of a split
\* month as well as a drawn day that has no daily page
C4_Witness ==
  /\ DateLinksDone
  /\ ~cfg.includeWeekends
  /\ \E i \in 1..Len(links) :
       /\ links[i].kind = "date"
       /\ drawn[links[i].src + 1].days[1] > 1
  /\ \E k \in 1..Len(allRefs) :
       /\ allRefs[k].type = "monthly"
       /\ \E day \in DaysDrawnOn(allRefs[k]) : DateLinksOver(allRefs[k].page, day) = {}

LabelsOf(items) == [i \in 1..Len(items) |-> items[i].label]

\* C5: for every reference of the navigation pass, the labels the link
\* rectangles are computed from are, in order, the labels drawn as the
\* navigation row of the page at the reference's pageIndex, and every
\* navigation link lies over a drawn label of the same text at the same x.
C5_LinkLabelsAsDrawn ==
  NavigationDone =>
    /\ \A k \in 1..Len(allRefs) :
         LabelsOf(getNavItemsForPage(allRefs[k], registry))
           = LabelsOf(drawn[getPage(doc, allRefs[k].pageIndex) + 1].nav)
    /\ \A i \in 1..Len(links) :
         links[i].kind = "nav" =>
           \E n \in 1..Len(drawn[links[i].src + 1].nav) :
             /\ drawn[links[i].src + 1].nav[n].label = links[i].label
             /\ drawn[links[i].src + 1].nav[n].x = links[i].x

\* the value a Map holds under a key, Undefined when it holds none
Stored(map, key) ==
  IF \E i \in 1..Len(map) : map[i][1] = key
  THEN LET i == CHOOSE i \in 1..Len(map) : map[i][1] = key IN map[i][2]
  ELSE Undefined

\* yearMonth keys, registered or not
MonthKeySpace == {formatYearMonth(MkDate(y, m, 1)) : y \in {2024, 2025, 2026}, m \in 1..12}

\* C6: resolveNavTarget answers registry.indexPage for 'index', the first
\* future-log page for 'future', the value stored under targetKey in
\* monthlyCalPages / monthlyTasksPages / weeklyPages for 'monthly' /
\* 'monthly-tasks' / 'weekly', and no target when the key is missing or not
\* registered or there is no future-log page: never another page.
C6_ResolveNavTarget ==
  RegistryBuilt =>
    LET ref == allRefs[1]
    IN /\ resolveNavTarget(NavItem("Index", "index", NoKey), ref, registry) = registry.indexPage
       /\ resolveNavTarget(NavItem("Future Log", "future", NoKey), ref, registry)
            = (IF registry.futureLogPages = <<>> THEN Undefined
               ELSE Head(registry.futureLogPages))
       /\ \A key \in MonthKeySpace :
            /\ resolveNavTarget(NavItem("Monthly", "monthly", key), ref, registry)
                 = Stored(registry.monthlyCalPages, key)
            /\ resolveNavTarget(NavItem("Tasks", "monthly-tasks", key), ref, registry)
                 = Stored(registry.monthlyTasksPages, key)
       /\ \A week \in 1..54 :
            resolveNavTarget(NavItem("Weekly", "weekly", numToString(week)), ref, registry)
              = Stored(registry.weeklyPages, week)
       /\ \A type \in {"monthly", "monthly-tasks", "weekly"} :
            resolveNavTarget(NavItem("x", type, NoKey), ref, registry) = Undefined

\* a registry with future-log, monthly and weekly entries, and month and
\* week keys that are not registered
C6_Witness ==
  /\ RegistryBuilt
  /\ Len(registry.futureLogPages) > 1
  /\ \E key \in MonthKeySpace : Stored(registry.monthlyCalPages, key) # Undefined
  /\ \E key \in MonthKeySpace : Stored(registry.monthlyTasksPages, key) = Undefined
  /\ \E week \in 1..54 : Stored(registry.weeklyPages, week) # Undefined
  /\ \E week \in 1..54 : Stored(registry.weeklyPages, week) = Undefined

\* the references of the type of allRefs[k], in order, and the place of
\* allRefs[k] among them
SameType(k) == SelectSeq(allRefs, LAMBDA r : r.type = allRefs[k].type)
RankInType(k) == Cardinality({j \in 1..k : allRefs[j].type = allRefs[k].type})

\* C7: 'prev' resolves to the page just before and 'next' to the page just
\* after the reference among the pages of its type, which pagesByType lists
\* in increasing document order; 'prev' on the first and 'next' on the last
\* page of a type resolve to no target.
C7_PrevNext ==
  RegistryBuilt =>
    \A k \in 1..Len(allRefs) :
      LET same == SameType(k)
          rank == RankInType(k)
          pages == registry.pagesByType[allRefs[k].type]
      IN /\ pages = [i \in 1..Len(same) |-> same[i].pageIndex]
         /\ \A i \in 1..(Len(pages) - 1) : pages[i] < pages[i + 1]
         /\ resolveNavTarget(NavItem("<", "prev", NoKey), allRefs[k], registry)
              = (IF rank = 1 THEN Undefined ELSE same[rank - 1].pageIndex)
         /\ resolveNavTarget(NavItem(">", "next", NoKey), allRefs[k], registry)
              = (IF rank = Len(same) THEN Undefined ELSE same[rank + 1].pageIndex)

\* three weekly pages with their '<' and '>' links made
C7_Witness ==
  /\ NavigationDone
  /\ Len(FilterType(allRefs, "weekly")) >= 3
  /\ \E i \in 1..Len(links) :
       links[i].kind = "nav" /\ links[i].label = "<" /\ links[i].ref.type = "weekly"
  /\ \E i \in 1..Len(links) :
       links[i].kind = "nav" /\ links[i].label = ">" /\ links[i].ref.type = "weekly"

\* the monthly section has been generated
MonthlyGenerated == cfg.includeMonthlyLog /\ pc \notin {"cover", "key", "future", "monthly"}

\* the calendar references and the tasks references of a month
CalendarOf(monthDate) ==
  SelectSeq(bujoPageRefs, LAMBDA r : r.type = "monthly" /\ r.date = monthDate)
TasksOf(monthDate) ==
  SelectSeq(bujoPageRefs, LAMBDA r : r.type = "monthly-tasks" /\ r.date = monthDate)

\* split layout: the tasks page is a page of its own
IsSplit(monthDate) ==
  \A i \in 1..Len(CalendarOf(monthDate)) : \A j \in 1..Len(TasksOf(monthDate)) :
    CalendarOf(monthDate)[i].page # TasksOf(monthDate)[j].page

\* the days drawn on the calendar pages of a month, page after page
DaysAcross(monthDate) ==
  ForOf(LAMBDA acc, r : acc \o drawn[r.page + 1].days, <<>>, CalendarOf(monthDate))

\* floor(H / Rmin) of the configuration
RowsPerPage ==
  AvailableHeight(getDeviceDimensions(cfg)) \div MinLineHeight(DENSITY_CONFIGS[cfg.density])

MonthsOfRange == eachMonthOfInterval(cfg.startDate, cfg.endDate)

\* C8: a month of N days in split layout has exactly ceil(N / rowsPerPage)
\* calendar pages, rowsPerPage = floor(H / Rmin), none of them empty, and the
\* days 1..N appear once each, in order, across them.
C8_PaginationExact ==
  MonthlyGenerated =>
    \A m \in 1..Len(MonthsOfRange) :
      LET monthDate == MonthsOfRange[m]
          N == getDaysInMonth(monthDate)
          cal == CalendarOf(monthDate)
      IN IsSplit(monthDate) =>
           /\ Len(cal) = Ceil(N, RowsPerPage)
           /\ \A i \in 1..Len(cal) : Len(drawn[cal[i].page + 1].days) > 0
           /\ DaysAcross(monthDate) = [d \in 1..N |-> d]

\* a month of exactly k * rowsPerPage days on k pages next to a month of
\* k * rowsPerPage + r days on k + 1 pages
C8_Witness ==
  /\ MonthlyGenerated
  /\ \E m \in 1..Len(MonthsOfRange) :
       /\ IsSplit(MonthsOfRange[m])
       /\ getDaysInMonth(MonthsOfRange[m]) % RowsPerPage = 0
       /\ Len(CalendarOf(MonthsOfRange[m])) = getDaysInMonth(MonthsOfRange[m]) \div RowsPerPage
       /\ Len(CalendarOf(MonthsOfRange[m])) >= 2
  /\ \E m \in 1..Len(MonthsOfRange) :
       /\ IsSplit(MonthsOfRange[m])
       /\ getDaysInMonth(MonthsOfRange[m]) % RowsPerPage # 0
       /\ Len(CalendarOf(MonthsOfRange[m])) = getDaysInMonth(MonthsOfRange[m]) \div RowsPerPage + 1

\* the stages of generatePlannerPDF in program order
StageOrder == <<"cover", "key", "future", "monthly", "weekly", "daily", "collection", "index",
                "shift", "registry", "navigation", "dateLinks", "basicNav", "save", "done">>
StageRank(stage) == CHOOSE i \in 1..Len(StageOrder) : StageOrder[i] = stage

\* the pages created by a step
NewPages == {drawn'[i] : i \in (Len(drawn) + 1)..Len(drawn')}
\* the links made by a step
NewLinks == {links'[i] : i \in (Len(links) + 1)..Len(links')}

C9_Step ==
  \* no stage is revisited
  /\ StageRank(pc') > StageRank(pc)
  \* content pages come first, index pages after all of them
  /\ \A p \in NewPages :
       IF p.type = "index"
       THEN pc = "index"
       ELSE /\ StageRank(pc) < StageRank("index")
            /\ indexPageCount = 0 /\ indexRefs = <<>>
            /\ \A i \in 1..Len(drawn) : drawn[i].type # "index"
  \* the shift: once, of every content reference, by M, after the index pages
  \* and before the registry
  /\ Len(bujoPageRefs') >= Len(bujoPageRefs)
  /\ IF pc = "shift"
     THEN /\ shifts = 0 /\ shifts' = 1
          /\ indexPageCount = Len(indexRefs) /\ indexPageCount >= 1
          /\ Len(bujoPageRefs') = Len(bujoPageRefs)
          /\ \A k \in 1..Len(bujoPageRefs) :
               bujoPageRefs'[k].pageIndex = bujoPageRefs[k].pageIndex + indexPageCount
          /\ registry = EmptyRegistry(Undefined) /\ allRefs = <<>>
     ELSE /\ shifts' = shifts
          /\ \A k \in 1..Len(bujoPageRefs) :
               bujoPageRefs'[k].pageIndex = bujoPageRefs[k].pageIndex
  \* the registry is built after the shift, from the shifted references
  /\ (registry' # registry \/ allRefs' # allRefs) =>
       /\ pc = "registry" /\ shifts = 1
       /\ allRefs' = indexRefs \o bujoPageRefs
       /\ registry' = buildPageRegistry(allRefs', tocPageIndex)
  \* navigation and date links are made once the registry is built
  /\ \A l \in NewLinks :
       l.kind \in {"nav", "date"} =>
         /\ pc \in {"navigation", "dateLinks"}
         /\ registry = buildPageRegistry(allRefs, tocPageIndex) /\ allRefs # <<>>
         /\ l.kind = "date" => pc = "dateLinks"
  \* nothing moves after the registry is built
  /\ (tocPageIndex = 1 /\ StageRank(pc) > StageRank("registry")) =>
       /\ doc' = doc /\ drawn' = drawn
       /\ bujoPageRefs' = bujoPageRefs /\ indexRefs' = indexRefs /\ allRefs' = allRefs
       /\ registry' = registry /\ indexPageCount' = indexPageCount

\* C9: with an index, all content pages are generated first, then the index
\* pages are inserted, then every content reference is shifted by M exactly
\* once, then the registry is built, and only then navigation links and
\* date links are made; after the registry is built no page is added or
\* inserted and no pageIndex changes.
C9_PipelineOrder == [][C9_Step]_vars

\* the end of a run with several index pages, navigation links and date links
C9_Witness ==
  /\ tocPageIndex = 1 /\ pc = "done"
  /\ shifts = 1
  /\ indexPageCount >= 2
  /\ \E i \in 1..Len(links) : links[i].kind = "nav"
  /\ \E i \in 1..Len(links) : links[i].kind = "date"

\* the 'Weekly' item of the navigation of a reference
WeeklyItemOf(ref) == SelectSeq(getNavItemsForPage(ref, registry), LAMBDA it : it.label = "Weekly")

\* C10: for every daily page of date d and every weekly page whose week
\* (Sunday to Saturday) contains d, the 'Weekly' item of the daily page
\* resolves to the pageIndex of that weekly page.
C10_WeeklyOfDaily ==
  RegistryBuilt =>
    \A k \in 1..Len(allRefs) :
      allRefs[k].type = "daily" =>
        \A w \in 1..Len(allRefs) :
          (/\ allRefs[w].type = "weekly"
           /\ allRefs[w].date <= allRefs[k].date
           /\ allRefs[k].date <= allRefs[w].date + 6)
            => /\ Len(WeeklyItemOf(allRefs[k])) = 1
               /\ resolveNavTarget(WeeklyItemOf(allRefs[k])[1], allRefs[k], registry)
                    = allRefs[w].pageIndex

\* C11: after the index-insertion pass, the pageIndex values of the
\* references handed to buildPageRegistry are pairwise distinct.
C11_DistinctPageIndex ==
  Shifted =>
    \A i \in 1..Len(RegistryInput) : \A j \in 1..Len(RegistryInput) :
      i # j => RegistryInput[i].pageIndex # RegistryInput[j].pageIndex

(***************************************************************************)
(* buildPageRegistry on reference lists of any shape: references with and  *)
(* without the key their type is registered under.                         *)
(***************************************************************************)
MaxRefs == 3

\* <<type, date, weekIndex, yearMonth>> of a reference; Undefined and NoKey
\* are an absent optional field
RefShapes ==
  {<<"key", Undefined, Undefined, NoKey>>,
   <<"collection", Undefined, Undefined, NoKey>>,
   <<"monthly", MkDate(2025, 1, 1), Undefined, formatYearMonth(MkDate(2025, 1, 1))>>,
   <<"monthly", MkDate(2025, 1, 1), Undefined, NoKey>>,
   <<"monthly-tasks", MkDate(2025, 2, 1), Undefined, formatYearMonth(MkDate(2025, 2, 1))>>,
   <<"monthly-tasks", Undefined, Undefined, NoKey>>,
   <<"weekly", MkDate(2025, 1, 5), 2, NoKey>>,
   <<"weekly", MkDate(2025, 1, 5), 0, NoKey>>,
   <<"weekly", MkDate(2025, 1, 5), Undefined, formatYearMonth(MkDate(2025, 1, 5))>>,
   <<"daily", MkDate(2025, 1, 9), 2, NoKey>>,
   <<"daily", Undefined, 2, formatYearMonth(MkDate(2025, 1, 9))>>}

\* the reference lists of up to MaxRefs references, the i-th at pageIndex i
RefLists ==
  {[i \in 1..Len(shape) |-> PageRef(<<"ref", i>>, i, shape[i][1], shape[i][2], Undefined,
                                    shape[i][3], shape[i][4], Undefined)] :
     shape \in UNION {[1..n -> RefShapes] : n \in 0..MaxRefs}}

InitRegistry ==
  /\ cfg = Config("remarkable2", "normal", DefaultPadding,
                  <<MkDate(2025, 1, 1), MkDate(2025, 1, 31)>>, TRUE, TRUE, TRUE,
                  <<TRUE, 6>>, TRUE, TRUE, TRUE, 0)
  /\ other = NoCall
  /\ active = 1
  /\ HookMounted
  /\ pc = "registry"
  /\ doc = <<>>
  /\ drawn = <<>>
  /\ bujoPageRefs \in RefLists
  /\ indexRefs = <<>>
  /\ indexPageCount = 0
  /\ tocPageIndex = 1
  /\ allRefs = <<>>
  /\ registry = EmptyRegistry(Undefined)
  /\ links = <<>>
  /\ shifts = 0

SpecRegistry == InitRegistry /\ [][BuildRegistry]_vars

\* the key a reference is registered under in the keyed map of its type,
\* NoKey when it lacks that key
RequiredKey(ref) ==
  CASE ref.type \in {"monthly", "monthly-tasks"} ->
         IF ref.yearMonth # NoKey THEN <<ref.yearMonth>> ELSE NoKey
    [] ref.type = "weekly" -> IF ref.weekIndex # Undefined THEN <<ref.weekIndex>> ELSE NoKey
    [] ref.type = "daily" -> IF ref.date # Undefined THEN <<formatDateKey(ref.date)>> ELSE NoKey
    [] OTHER -> NoKey

\* the keyed map of a type
KeyedMap(reg, type) ==
  CASE type = "monthly" -> reg.monthlyCalPages
    [] type = "monthly-tasks" -> reg.monthlyTasksPages
    [] type = "weekly" -> reg.weeklyPages
    [] type = "daily" -> reg.dailyPages

KeyedTypes == {"monthly", "monthly-tasks", "weekly", "daily"}

\* the positions in allRefs of the references of a type that carry the key
KeyedRefs(type, key) ==
  {k \in 1..Len(allRefs) : allRefs[k].type = type /\ RequiredKey(allRefs[k]) = <<key>>}

\* C12: buildPageRegistry returns a registry for every reference list; a
\* reference that lacks the key of its type adds nothing to the keyed map of
\* its type (the map holds exactly the keys the keyed references carry, each
\* with the pageIndex of a reference that carries it), every keyed reference
\* is registered, and every reference, keyed or not, is listed in
\* pagesByType under its type.
C12_KeylessSkipped ==
  pc = "navigation" =>
    /\ DOMAIN registry.pagesByType = PageTypes
    /\ \A type \in PageTypes :
         registry.pagesByType[type]
           = [i \in 1..Len(FilterType(allRefs, type)) |-> FilterType(allRefs, type)[i].pageIndex]
    /\ \A type \in KeyedTypes :
         /\ \A k \in 1..Len(allRefs) :
              (allRefs[k].type = type /\ RequiredKey(allRefs[k]) # NoKey)
                => MapHas(KeyedMap(registry, type), RequiredKey(allRefs[k])[1])
         /\ \A e \in 1..Len(KeyedMap(registry, type)) :
              \E k \in KeyedRefs(type, KeyedMap(registry, type)[e][1]) :
                KeyedMap(registry, type)[e][2] = allRefs[k].pageIndex
    /\ registry.collectionPages
         = [i \in 1..Len(FilterType(allRefs, "collection")) |->
              FilterType(allRefs, "collection")[i].pageIndex]

\* a weekly reference without weekIndex between a keyed weekly reference and
\* a daily reference without date
C12_Witness ==
  /\ pc = "navigation"
  /\ Len(allRefs) = 3
  /\ allRefs[1].type = "weekly" /\ allRefs[1].weekIndex # Undefined
  /\ allRefs[2].type = "weekly" /\ allRefs[2].weekIndex = Undefined
  /\ allRefs[3].type = "daily" /\ allRefs[3].date = Undefined
  /\ Len(registry.weeklyPages) = 1
  /\ registry.dailyPages = <<>>
  /\ registry.pagesByType["weekly"] = <<1, 2>>

\* the x (in 1/1000 pt) of the i-th item of a navigation row in which every
\* item takes its width and every item but the last its separator
RECURSIVE ItemX(_, _, _)
ItemX(items, i, left) ==
  IF i = 1 THEN left * 1000
  ELSE ItemX(items, i - 1, left)
       + widthOfTextAtSize(items[i - 1].label, 7) + widthOfTextAtSize("  |  ", 7)

\* the page a navigation item of allRefs[k] points at exists: the section is
\* present for the item's key, and '<' / '>' are not at the ends of the type
TargetExists(item, k) ==
  CASE item.targetType = "index" -> TRUE
    [] item.targetType = "future" -> FilterType(allRefs, "future") # <<>>
    [] item.targetType \in {"monthly", "monthly-tasks"} ->
         /\ item.targetKey # NoKey
         /\ \E j \in 1..Len(allRefs) :
              allRefs[j].type = item.targetType /\ allRefs[j].yearMonth = item.targetKey
    [] item.targetType = "weekly" ->
         /\ item.targetKey # NoKey
         /\ \E j \in 1..Len(allRefs) :
              /\ allRefs[j].type = "weekly" /\ allRefs[j].weekIndex # Undefined
              /\ numToString(allRefs[j].weekIndex) = item.targetKey
    [] item.targetType = "prev" -> RankInType(k) > 1
    [] item.targetType = "next" -> RankInType(k) < Len(SameType(k))

\* the navigation links made for allRefs[k] over the label
NavLinksOver(k, label) ==
  {i \in 1..Len(links) :
     links[i].kind = "nav" /\ links[i].ref = allRefs[k] /\ links[i].label = label}

\* C13: in the navigation pass an item whose target does not exist (section
\* absent for its key, '<' on the first and '>' on the last page of a type)
\* gets no link, and every item whose target exists gets exactly one link,
\* at the x it has when every item before it takes its width and separator,
\* linked or not.
C13_UnresolvedOmitted ==
  NavigationDone =>
    \A k \in 1..Len(allRefs) :
      LET items == getNavItemsForPage(allRefs[k], registry)
      IN \A n \in 1..Len(items) :
           IF TargetExists(items[n], k)
           THEN /\ Cardinality(NavLinksOver(k, items[n].label)) = 1
                /\ \A i \in NavLinksOver(k, items[n].label) :
                     links[i].x = ItemX(items, n, cfg.padding.left)
           ELSE NavLinksOver(k, items[n].label) = {}

\* the first weekly page: no link over '<', and its 'Index' link one item
\* and one separator to the right of the left padding
C13_Witness ==
  /\ NavigationDone
  /\ \E k \in 1..Len(allRefs) :
       /\ allRefs[k].type = "weekly" /\ RankInType(k) = 1 /\ Len(SameType(k)) > 1
       /\ NavLinksOver(k, "<") = {}
       /\ \E i \in NavLinksOver(k, "Index") :
            links[i].x = cfg.padding.left * 1000 + widthOfTextAtSize("<", 7)
                           + widthOfTextAtSize("  |  ", 7)
       /\ NavLinksOver(k, ">") # {}

\* generateBujoPages is running or has just returned: no index page yet
ContentStage == StageRank(pc) <= StageRank("index")

\* the type a page was drawn as
DrawnType(page) == drawn[page + 1].type

\* C14: while the content is generated, every reference has as pageIndex the
\* position its page was appended at (the page count - 1 at that moment,
\* which is the page's number in creation order), the page at that position
\* is the page drawn for the reference, the pageIndex values of the list are
\* non-decreasing, and they cover every position from the first content page
\* to the last page of the document without a gap.
C14_PageIndexAsAppended ==
  ContentStage =>
    /\ \A k \in 1..Len(bujoPageRefs) :
         /\ bujoPageRefs[k].pageIndex \in 1..(Len(doc) - 1)
         /\ getPage(doc, bujoPageRefs[k].pageIndex) = bujoPageRefs[k].pageIndex
         /\ bujoPageRefs[k].page = bujoPageRefs[k].pageIndex
         /\ \/ DrawnType(bujoPageRefs[k].pageIndex) = bujoPageRefs[k].type
            \/ /\ bujoPageRefs[k].type = "monthly-tasks"
               /\ DrawnType(bujoPageRefs[k].pageIndex) = "monthly"
    /\ \A k \in 1..(Len(bujoPageRefs) - 1) :
         bujoPageRefs[k].pageIndex <= bujoPageRefs[k + 1].pageIndex
    /\ {bujoPageRefs[k].pageIndex : k \in 1..Len(bujoPageRefs)} = 1..(Len(doc) - 1)

\* the returned list of a run with monthly, weekly and daily sections, two
\* references of one combined monthly page among them
C14_Witness ==
  /\ pc = "index"
  /\ Len(FilterType(bujoPageRefs, "weekly")) >= 2
  /\ Len(FilterType(bujoPageRefs, "daily")) >= 2
  /\ \E k \in 1..(Len(bujoPageRefs) - 1) :
       bujoPageRefs[k].pageIndex = bujoPageRefs[k + 1].pageIndex
  /\ \E k \in 1..(Len(bujoPageRefs) - 1) :
       bujoPageRefs[k].pageIndex + 1 = bujoPageRefs[k + 1].pageIndex

\* 'YYYY-MM-DD' of a civil date, digit by digit
IsoDate(date) ==
  LET y == Civil(date)[1]
      m == Civil(date)[2]
      d == Civil(date)[3]
  IN <<DigitChars[(y \div 1000) + 1], DigitChars[((y \div 100) % 10) + 1],
       DigitChars[((y \div 10) % 10) + 1], DigitChars[(y % 10) + 1], "-",
       DigitChars[(m \div 10) + 1], DigitChars[(m % 10) + 1], "-",
       DigitChars[(d \div 10) + 1], DigitChars[(d % 10) + 1]>>

\* the dates of the range that get a daily page: all of them, or Monday to
\* Friday when weekends are excluded
LoggedDates ==
  {d \in cfg.startDate..cfg.endDate : cfg.includeWeekends \/ getDay(d) \in 1..5}

\* C15: with the daily log enabled, dailyPages holds exactly one key
\* 'YYYY-MM-DD' for every date from startDate to endDate (every Monday to
\* Friday of the range when weekends are excluded) and no other key, and
\* each key maps to the position of the daily page generated for that date.
C15_DailyPagesExact ==
  (RegistryBuilt /\ cfg.includeDailyLog) =>
    /\ {registry.dailyPages[e][1] : e \in 1..Len(registry.dailyPages)}
         = {IsoDate(d) : d \in LoggedDates}
    /\ Len(registry.dailyPages) = Cardinality(LoggedDates)
    /\ \A d \in LoggedDates :
         /\ Stored(registry.dailyPages, IsoDate(d)) \in 0..(Len(doc) - 1)
         /\ DrawnType(getPage(doc, Stored(registry.dailyPages, IsoDate(d)))) = "daily"
         /\ \E k \in DailyRefsOf(d) :
              allRefs[k].page = getPage(doc, Stored(registry.dailyPages, IsoDate(d)))

\* weekends excluded over a range with a Saturday and a Sunday in it
C15_Witness ==
  /\ RegistryBuilt /\ cfg.includeDailyLog /\ ~cfg.includeWeekends
  /\ Cardinality(LoggedDates) < cfg.endDate - cfg.startDate
  /\ Len(registry.dailyPages) >= 3
  /\ \E d \in cfg.startDate..cfg.endDate :
       getDay(d) = 6 /\ Stored(registry.dailyPages, IsoDate(d)) = Undefined

(***************************************************************************)
(* Two calls of generatePlannerPDF on one configuration.  A call's state   *)
(* is its locals (pdfDoc, the reference lists, the counters, the           *)
(* registry); the module holds no state.  JavaScript runs one call at a    *)
(* time and changes to the other only where the running call awaits        *)
(* (PDFDocument.create and embedFont before the cover, pdfDoc.save at the  *)
(* end) or has returned.                                                   *)
(***************************************************************************)
\* the locals of the running call
Locals ==
  [pc |-> pc, doc |-> doc, drawn |-> drawn, bujoPageRefs |-> bujoPageRefs,
   indexRefs |-> indexRefs, indexPageCount |-> indexPageCount,
   tocPageIndex |-> tocPageIndex, allRefs |-> allRefs, registry |-> registry,
   links |-> links, shifts |-> shifts]

\* the running call awaits or has returned
AtAwait == pc \in {"cover", "save", "done"}

\* a change of call in which the document is one object shared by both calls
SwitchCallSharedDocument ==
  /\ other # NoCall
  /\ AtAwait
  /\ other' = Locals
  /\ active' = 3 - active
  /\ pc' = other.pc
  /\ bujoPageRefs' = other.bujoPageRefs
  /\ indexRefs' = other.indexRefs
  /\ indexPageCount' = other.indexPageCount
  /\ tocPageIndex' = other.tocPageIndex
  /\ allRefs' = other.allRefs
  /\ registry' = other.registry
  /\ links' = other.links
  /\ shifts' = other.shifts
  /\ UNCHANGED <<cfg, doc, drawn, hookVars>>

\* the event loop resumes the other call: every local is the call's own
SwitchCall ==
  /\ other # NoCall
  /\ AtAwait
  /\ other' = Locals
  /\ active' = 3 - active
  /\ pc' = other.pc
  /\ doc' = other.doc
  /\ drawn' = other.drawn
  /\ bujoPageRefs' = other.bujoPageRefs
  /\ indexRefs' = other.indexRefs
  /\ indexPageCount' = other.indexPageCount
  /\ tocPageIndex' = other.tocPageIndex
  /\ allRefs' = other.allRefs
  /\ registry' = other.registry
  /\ links' = other.links
  /\ shifts' = other.shifts
  /\ UNCHANGED <<cfg, hookVars>>

\* the configurations the two calls are made on
TwoCallConfigSpace ==
  {c \in ConfigSpace :
     /\ <<c.device, c.density, c.padding>>
          \in {<<"remarkable2", "compact", DefaultPadding>>, <<"move", "comfortable", MaxPadding>>}
     /\ c.includeWeekends /\ c.showBulletKey}

InitTwoCalls ==
  /\ other = FreshCall
  /\ active = 1
  /\ HookMounted
  /\ cfg \in TwoCallConfigSpace
  /\ pc = "cover"
  /\ doc = <<>>
  /\ drawn = <<>>
  /\ bujoPageRefs = <<>>
  /\ indexRefs = <<>>
  /\ indexPageCount = 0
  /\ tocPageIndex = -1
  /\ allRefs = <<>>
  /\ registry = EmptyRegistry(Undefined)
  /\ links = <<>>
  /\ shifts = 0

NextTwoCalls == Next \/ SwitchCall

SpecTwoCalls == InitTwoCalls /\ [][NextTwoCalls]_vars

\* the keys of a Map with the value each is mapped to
Mapping(map) == {map[e] : e \in 1..Len(map)}

\* two calls at the same point of the program have equal locals; once both
\* have returned, equal page counts and registries
C16_SameResult ==
  /\ pc = other.pc => Locals = other
  /\ (pc = "done" /\ other.pc = "done") =>
       /\ Len(doc) = Len(other.doc)
       /\ registry.indexPage = other.registry.indexPage
       /\ registry.pagesByType = other.registry.pagesByType
       /\ \A type \in KeyedTypes :
            Mapping(KeyedMap(registry, type)) = Mapping(KeyedMap(other.registry, type))

\* a step of the running call leaves the locals of the suspended call as
\* they were, and a change of call changes no local of either call
C16_Isolated ==
  /\ active' = active => other' = other
  /\ active' # active => (other' = Locals /\ Locals' = other)

IndexLinks == {i \in 1..Len(links) : links[i].kind = "index"}

\* the index pages, in document order
IndexPagesInOrder == SelectSeq(doc, LAMBDA page : DrawnType(page) = "index")

\* C17: every link addBujoIndex makes for an entry leads to the page that
\* was created for the entry's reference, whatever index pages are inserted
\* after the link was made; once the references are shifted, that page is
\* at the reference's pageIndex in the final document.
C17_IndexLinksHitEntry ==
  \A i \in IndexLinks :
    /\ links[i].dst = links[i].entry
    /\ DrawnType(links[i].dst) # "index"
    /\ DrawnType(links[i].src) = "index"
    /\ \E q \in 1..Len(doc) : doc[q] = links[i].dst
    /\ Shifted =>
         \E k \in 1..Len(bujoPageRefs) :
           /\ bujoPageRefs[k].page = links[i].entry
           /\ getPage(doc, bujoPageRefs[k].pageIndex) = links[i].dst

\* a finished document with three index pages, with links on the first
\* index page, made before the other two were inserted, and on the last
C17_Witness ==
  /\ pc = "done"
  /\ indexPageCount >= 3
  /\ \E i \in IndexLinks : links[i].src = IndexPagesInOrder[1]
  /\ \E i \in IndexLinks : links[i].src = IndexPagesInOrder[Len(IndexPagesInOrder)]

\* the index has been built
IndexBuilt == tocPageIndex = 1 /\ StageRank(pc) > StageRank("index")

\* the pages the index links lead to
IndexLinkTargets == {links[i].dst : i \in IndexLinks}

\* C18: when the index is built, every weekly review page is the
\* destination of a link on an index page, and for every month of the range
\* with a monthly log an index link leads to a calendar page of that month.
C18_WeeksAndMonthsLinked ==
  IndexBuilt =>
    /\ \A k \in 1..Len(bujoPageRefs) :
         bujoPageRefs[k].type = "weekly" => bujoPageRefs[k].page \in IndexLinkTargets
    /\ cfg.includeMonthlyLog =>
         \A m \in 1..Len(MonthsOfRange) :
           \E j \in 1..Len(CalendarOf(MonthsOfRange[m])) :
             CalendarOf(MonthsOfRange[m])[j].page \in IndexLinkTargets

(***************************************************************************)
(* The layout of the index over the paddings and the numbers of collection *)
(* pages the form allows (0..80 on every side, 0..50 pages).               *)
(***************************************************************************)
\* the paddings tried: none, the default, and larger ones up to the largest
LayoutPaddings ==
  {[top |-> tp, bottom |-> 24, left |-> lf, right |-> lf] :
     tp \in {40, 58}, lf \in {0, 24, 60, 80}}

\* a quarter of daily pages and of monthly rows
LayoutRanges == {<<MkDate(2025, 1, 1), MkDate(2025, 3, 31)>>}

\* numbers of collection pages, up to the largest
LayoutCollections == {0, 31, 50}

IndexLayoutConfigSpace ==
  {Config(dv, "normal", pd, rg, TRUE, ix, TRUE, <<FALSE, 6>>, mo, FALSE, da, co) :
     dv \in Devices, pd \in LayoutPaddings, rg \in LayoutRanges, ix \in BOOLEAN,
     mo \in BOOLEAN, da \in BOOLEAN, co \in LayoutCollections}

InitIndexLayout == Start(IndexLayoutConfigSpace)

SpecIndexLayout == InitIndexLayout /\ [][Next]_vars

\* the pen position state.y at which the entry of an index link was drawn:
\* addLink puts the rectangle 2 below the y it is given, and the day numbers
\* give it state.y - 2
EntryY(link) == link.y + 2 + (IF DrawnType(link.entry) = "daily" THEN 2 ELSE 0)

\* C19: a new index page is allocated before a row that does not fit, so
\* that no entry of the index is drawn below the bottom limit MARGIN + 30
\* of its page.
C19_NoEntryBelowLimit ==
  \A i \in IndexLinks : EntryY(links[i]) >= getDeviceDimensions(cfg).MARGIN + 30

(***************************************************************************)
(* The preview hook (hooks/usePreview.ts).  A generation is one call of    *)
(* generatePreview; it is suspended at each of its awaits.  Generation g   *)
(* creates the AbortController g; controllers[g] is its signal.aborted.    *)
(* abortController and pdfRef are refs: 0 is null, g the object made by    *)
(* generation g.  In state, pages[i] and pageLinks[i] are 0 for the        *)
(* placeholder and g for an image or a link list rendered from the         *)
(* document of generation g.  timers[t] is the status of the t-th timer    *)
(* set with setTimeout; debounceTimeout is the ref holding the last one.   *)
(***************************************************************************)
\* the number of calls of generatePreview
MaxGenerations == 2

\* the awaits of a generation, at each of which the promise may reject
FailPoints == {"generating", "loadingDocument", "renderingInitial", "renderingAdjacent"}

pipelineVars == <<cfg, pc, doc, drawn, bujoPageRefs, indexRefs, indexPageCount,
                  tocPageIndex, allRefs, registry, links, shifts, callVars>>

\* abortController.current?.signal.aborted
Aborted == abortController # 0 /\ controllers[abortController]

\* the generation moves to another point, or returns: its locals are gone
\* once the call is over
Goto(g, point) ==
  gens' = [gens EXCEPT ![g] = IF point \in {"returned", "failed"}
                              THEN [@ EXCEPT !.pc = point, !.restoredPage = 0,
                                             !.adjacentPages = <<>>]
                              ELSE [@ EXCEPT !.pc = point]]

\* the head of for (const pageIndex of adjacentPages), which runs in the
\* same turn as the setState before it: the loop is left when no page
\* remains or the controller is aborted, otherwise renderPage is awaited
LoopHead(g, adjacentPages) ==
  gens' = [gens EXCEPT ![g] = IF adjacentPages = <<>> \/ Aborted
                              THEN [@ EXCEPT !.pc = "returned", !.restoredPage = 0,
                                             !.adjacentPages = <<>>]
                              ELSE [@ EXCEPT !.pc = "renderingAdjacent",
                                             !.adjacentPages = adjacentPages]]

\* newPages[pageIndex] = value on a copy of the array (a JavaScript array
\* grows when the index is past its end)
SetAt(array, pageIndex, value) ==
  [i \in 1..Max(Len(array), pageIndex + 1) |->
     IF i = pageIndex + 1 THEN value ELSE IF i <= Len(array) THEN array[i] ELSE 0]

\* prev.pages[newPage] is truthy
Rendered(pages, pageIndex) ==
  pageIndex >= 0 /\ pageIndex < Len(pages) /\ pages[pageIndex + 1] # 0

\* clearTimeout(debounceTimeout.current), when the ref is not null
ClearTimeout(ts) ==
  IF debounceTimeout # 0 /\ ts[debounceTimeout] = "pending"
  THEN [ts EXCEPT ![debounceTimeout] = "cleared"]
  ELSE ts

\* the component is rendered with another configuration: configRef.current
\* is updated, the cleanup of the debounce effect runs and then the effect
EffectWithoutClearTimeout(config) ==
  /\ mounted
  /\ config.key # configRef.key
  /\ configRef' = config
  /\ timers' = Append(timers, "pending")
  /\ debounceTimeout' = Len(timers) + 1
  /\ UNCHANGED <<state, abortController, controllers, pdfRef, previousPageRef, gens, mounted,
                 renderingPage, loads, pipelineVars>>

ConfigChanged(config) ==
  /\ mounted
  /\ config.key # configRef.key
  /\ configRef' = config
  /\ timers' = Append(ClearTimeout(timers), "pending")
  /\ debounceTimeout' = Len(timers) + 1
  /\ UNCHANGED <<state, abortController, controllers, pdfRef, previousPageRef, gens, mounted,
                 renderingPage, loads, pipelineVars>>

\* generatePreview(currentConfig) up to its first await
GeneratePreview(currentConfig) ==
  /\ controllers' = Append(IF abortController # 0
                           THEN [controllers EXCEPT ![abortController] = TRUE]
                           ELSE controllers, FALSE)
  /\ abortController' = Len(controllers) + 1
  /\ previousPageRef' = state.currentPage
  /\ state' = [state EXCEPT !.isLoading = TRUE, !.error = FALSE]
  /\ gens' = Append(gens, [pc |-> "generating", config |-> currentConfig,
                           numPages |-> currentConfig.numPages,
                           restoredPage |-> 0, adjacentPages |-> <<>>])

\* a pending timer fires after 500 ms: generatePreview(configRef.current)
TimerFired(t) ==
  /\ timers[t] = "pending"
  /\ Len(gens) < MaxGenerations
  /\ timers' = [timers EXCEPT ![t] = "fired"]
  /\ GeneratePreview(configRef)
  /\ UNCHANGED <<pdfRef, mounted, configRef, debounceTimeout, renderingPage, loads,
                 pipelineVars>>

\* await generatePlannerPDF(currentConfig) has resolved
PdfGenerated(g) ==
  /\ gens[g].pc = "generating"
  /\ Goto(g, IF Aborted THEN "returned" ELSE "loadingDocument")
  /\ UNCHANGED <<state, abortController, controllers, pdfRef, previousPageRef, mounted,
                 configRef, timers, debounceTimeout, renderingPage, loads, pipelineVars>>

\* await getDocument(...).promise has resolved
DocumentLoaded(g) ==
  /\ gens[g].pc = "loadingDocument"
  /\ IF Aborted
     THEN Goto(g, "returned") /\ pdfRef' = pdfRef
     ELSE /\ pdfRef' = g
          /\ gens' = [gens EXCEPT ![g].pc = "renderingInitial",
                                  ![g].restoredPage = Min(previousPageRef, gens[g].numPages - 1)]
  /\ UNCHANGED <<state, abortController, controllers, previousPageRef, mounted,
                 configRef, timers, debounceTimeout, renderingPage, loads, pipelineVars>>

\* [restoredPage - 1, restoredPage + 1, 0].filter(...)
AdjacentPages(restoredPage, totalPages) ==
  SelectSeq(<<restoredPage - 1, restoredPage + 1, 0>>,
            LAMBDA p : p >= 0 /\ p < totalPages /\ p # restoredPage)

\* await renderPage(pdf, initialPage) has resolved
InitialPageRendered(g) ==
  /\ gens[g].pc = "renderingInitial"
  /\ IF Aborted
     THEN Goto(g, "returned") /\ state' = state
     ELSE /\ state' = [pages |-> [i \in 1..gens[g].numPages |->
                                    IF i = gens[g].restoredPage + 1 THEN g ELSE 0],
                       pageLinks |-> [i \in 1..gens[g].numPages |->
                                        IF i = gens[g].restoredPage + 1 THEN g ELSE 0],
                       currentPage |-> gens[g].restoredPage,
                       totalPages |-> gens[g].numPages,
                       isLoading |-> FALSE,
                       error |-> FALSE]
          /\ LoopHead(g, AdjacentPages(gens[g].restoredPage, gens[g].numPages))
  /\ UNCHANGED <<abortController, controllers, pdfRef, previousPageRef, mounted,
                 configRef, timers, debounceTimeout, renderingPage, loads, pipelineVars>>

\* await renderPage(pdf, pageIndex + 1) has resolved inside the loop: the
\* page is stored without a test of the controller, then the loop goes on
AdjacentPageRendered(g) ==
  /\ gens[g].pc = "renderingAdjacent"
  /\ state' = [state EXCEPT !.pages = SetAt(@, Head(gens[g].adjacentPages), g),
                            !.pageLinks = SetAt(@, Head(gens[g].adjacentPages), g)]
  /\ LoopHead(g, Tail(gens[g].adjacentPages))
  /\ UNCHANGED <<abortController, controllers, pdfRef, previousPageRef, mounted,
                 configRef, timers, debounceTimeout, renderingPage, loads, pipelineVars>>

\* the awaited promise rejects: the catch block
GenerationFailed(g) ==
  /\ gens[g].pc \in FailPoints
  /\ state' = IF Aborted THEN state ELSE [state EXCEPT !.isLoading = FALSE, !.error = TRUE]
  /\ Goto(g, "failed")
  /\ UNCHANGED <<abortController, controllers, pdfRef, previousPageRef, mounted,
                 configRef, timers, debounceTimeout, renderingPage, loads, pipelineVars>>

\* loadPage(pageIndex) up to its await: the refs and the loads after the call
LoadPage(pageIndex) ==
  IF pdfRef = 0 \/ renderingPage = pageIndex
  THEN UNCHANGED <<renderingPage, loads>>
  ELSE /\ renderingPage' = pageIndex
       /\ loads' = loads \cup {[pageIndex |-> pageIndex, pdf |-> pdfRef]}

\* the setState updater shared by goToPage, goNext and goPrev
TurnTo(newPage) ==
  /\ IF ~Rendered(state.pages, newPage) /\ pdfRef # 0
     THEN LoadPage(newPage)
     ELSE UNCHANGED <<renderingPage, loads>>
  /\ state' = [state EXCEPT !.currentPage = newPage]
  /\ UNCHANGED <<abortController, controllers, pdfRef, previousPageRef, gens, mounted,
                 configRef, timers, debounceTimeout, pipelineVars>>

\* the page navigation and the page links are rendered, and the handlers
\* called, only once the preview has pages
CanNavigate == mounted /\ state.totalPages > 0

\* a goNext without the clamp at the last page
goNextUnclamped == CanNavigate /\ TurnTo(state.currentPage + 1)

goToPage(page) ==
  CanNavigate /\ TurnTo(Max(0, Min(page, state.totalPages - 1)))

goNext == CanNavigate /\ TurnTo(Min(state.currentPage + 1, state.totalPages - 1))

goPrev == CanNavigate /\ TurnTo(Max(0, state.currentPage - 1))

\* await renderPage(pdfRef.current, pageIndex + 1) of loadPage has settled:
\* the page is stored if it resolved, and renderingPage is reset in any case
PageLoaded(load, resolved) ==
  /\ load \in loads
  /\ loads' = loads \ {load}
  /\ renderingPage' = Undefined
  /\ state' = IF resolved
              THEN [state EXCEPT !.pages = SetAt(@, load.pageIndex, load.pdf),
                                 !.pageLinks = SetAt(@, load.pageIndex, load.pdf)]
              ELSE state
  /\ UNCHANGED <<abortController, controllers, pdfRef, previousPageRef, gens, mounted,
                 configRef, timers, debounceTimeout, pipelineVars>>

\* the cleanups on unmount: the pending timer is cleared and the current
\* controller aborted
Unmount ==
  /\ mounted
  /\ mounted' = FALSE
  /\ timers' = ClearTimeout(timers)
  /\ controllers' = IF abortController # 0
                    THEN [controllers EXCEPT ![abortController] = TRUE]
                    ELSE controllers
  /\ UNCHANGED <<state, abortController, pdfRef, previousPageRef, gens, configRef,
                 debounceTimeout, renderingPage, loads, pipelineVars>>

\* the page numbers a link or the page input asks for
PagesAsked == 0..2

NextPreview ==
  \/ Len(timers) < Len(PreviewConfigs) /\ ConfigChanged(PreviewConfigs[Len(timers) + 1])
  \/ \E t \in 1..Len(timers) : TimerFired(t)
  \/ \E g \in 1..Len(gens) : PdfGenerated(g)
  \/ \E g \in 1..Len(gens) : DocumentLoaded(g)
  \/ \E g \in 1..Len(gens) : InitialPageRendered(g)
  \/ \E g \in 1..Len(gens) : AdjacentPageRendered(g)
  \/ \E g \in 1..Len(gens) : GenerationFailed(g)
  \/ \E page \in PagesAsked : goToPage(page)
  \/ goNext
  \/ goPrev
  \/ \E load \in loads, resolved \in BOOLEAN : PageLoaded(load, resolved)
  \/ Unmount

InitPreview ==
  Start({Config("remarkable2", "normal", DefaultPadding,
                <<MkDate(2025, 1, 1), MkDate(2025, 1, 31)>>, TRUE, TRUE, TRUE,
                <<TRUE, 6>>, TRUE, TRUE, TRUE, 0)})

SpecPreview == InitPreview /\ [][NextPreview]_vars

\* a step of a generation that is not the newest one leaves the preview
\* state and the document reference as they were
C20_Step ==
  \A g \in 1..Len(gens) :
    (g < Len(gens) /\ gens'[g] # gens[g]) => (state' = state /\ pdfRef' = pdfRef)

\* C20: once a newer generation has been started, an older generation that
\* is still in flight never writes the preview state (pages, pageLinks,
\* totalPages, currentPage, isLoading, error) nor the current-document
\* reference, in whatever order the two finish.
C20_SupersededDiscarded == [][C20_Step]_vars

\* a reference of the type, with no key
RefOfType(type) == PageRef("", 0, type, Undefined, Undefined, Undefined, NoKey, 0)

\* C21: once the registry of a generation is built, for every page type the
\* labels of getNavLabels under the generation's section flags are, in order,
\* the labels of getNavItemsForPage for a reference of that type, for the
\* references of the generation and for a bare reference of each type.
C21_LabelsAgree ==
  RegistryBuilt =>
    /\ \A t \in PageTypes :
         getNavLabels(t, NavContext(cfg)) = LabelsOf(getNavItemsForPage(RefOfType(t), registry))
    /\ \A k \in 1..Len(allRefs) :
         getNavLabels(allRefs[k].type, NavContext(cfg))
           = LabelsOf(getNavItemsForPage(allRefs[k], registry))

\* a generation with the weekly review and the daily log but neither the
\* future log nor the monthly log: its daily pages carry Index | Weekly
C21_Witness ==
  /\ RegistryBuilt
  /\ ~cfg.includeFutureLog /\ ~cfg.includeMonthlyLog /\ cfg.includeWeeklyReview
  /\ \E k \in 1..Len(allRefs) :
       /\ allRefs[k].type = "daily"
       /\ LabelsOf(getNavItemsForPage(allRefs[k], registry)) = <<"Index", "Weekly">>

(***************************************************************************)
(* The layout of the monthly calendar over the page heights the form       *)
(* allows: every device and density, and months of 28, 29, 30 and 31 days, *)
(* with a daily page for every day.  The available height depends on the   *)
(* sum of the top and bottom padding; the paddings below give every sum    *)
(* from 0 to 160 with the smallest and the largest top.                    *)
(***************************************************************************)
MonthLayoutPaddings ==
  {[top |-> tp, bottom |-> bt, left |-> 24, right |-> 24] : tp \in {0, 80}, bt \in 0..80}

MonthLayoutRanges ==
  {<<MkDate(2025, 2, 1), MkDate(2025, 2, 28)>>,
   <<MkDate(2024, 2, 1), MkDate(2024, 2, 29)>>,
   <<MkDate(2025, 4, 1), MkDate(2025, 4, 30)>>,
   <<MkDate(2025, 1, 1), MkDate(2025, 1, 31)>>}

\* with the index for every padding, and without it for the default padding
MonthLayoutConfigSpace ==
  {Config(dv, dn, pd, rg, TRUE, TRUE, FALSE, <<FALSE, 6>>, TRUE, FALSE, TRUE, 0) :
     dv \in Devices, dn \in Densities, pd \in MonthLayoutPaddings, rg \in MonthLayoutRanges}
  \cup
  {Config(dv, dn, DefaultPadding, rg, TRUE, FALSE, FALSE, <<FALSE, 6>>, TRUE, FALSE, TRUE, 0) :
     dv \in Devices, dn \in Densities, rg \in MonthLayoutRanges}

InitMonthLayout == Start(MonthLayoutConfigSpace)

SpecMonthLayout == InitMonthLayout /\ [][Next]_vars

\* H, Rpref and Rmin of the configuration
H == AvailableHeight(getDeviceDimensions(cfg))
Rpref == DENSITY_CONFIGS[cfg.density].lineHeight
Rmin == MinLineHeight(DENSITY_CONFIGS[cfg.density])

\* the page drawn for a reference
PageOf(ref) == drawn[ref.page + 1]

\* C22: a month whose N day rows fit at the preferred row height
\* (N * Rpref <= H) is drawn on one calendar page whose row height is H / N,
\* so that the N rows take exactly H.
C22_OnePageStretched ==
  MonthlyGenerated =>
    \A m \in 1..Len(MonthsOfRange) :
      LET N == getDaysInMonth(MonthsOfRange[m])
          cal == CalendarOf(MonthsOfRange[m])
      IN N * Rpref <= H =>
           /\ Len(cal) = 1
           /\ Len(PageOf(cal[1]).days) = N
           /\ QuotEq(PageOf(cal[1]).lineHeight, Quot(H, N))

\* C23: on every calendar page of a split month, the last one included, the
\* row height is H divided by the number of rows on that page; it is at
\* least Rmin, and the rows of the page take no more than H.
C23_SplitRowHeight ==
  MonthlyGenerated =>
    \A m \in 1..Len(MonthsOfRange) :
      IsSplit(MonthsOfRange[m]) =>
        \A i \in 1..Len(CalendarOf(MonthsOfRange[m])) :
          LET page == PageOf(CalendarOf(MonthsOfRange[m])[i])
              n == Len(page.days)
          IN /\ n >= 1
             /\ QuotEq(page.lineHeight, Quot(H, n))
             /\ QuotLeq(Quot(Rmin, 1), page.lineHeight)
             /\ QuotLeq(Quot(n * page.lineHeight[1], page.lineHeight[2]), Quot(H, 1))

\* a split month whose last calendar page has fewer rows than a full page,
\* at a row height larger than that of the full pages
C23_Witness ==
  /\ MonthlyGenerated
  /\ \E m \in 1..Len(MonthsOfRange) :
       LET cal == CalendarOf(MonthsOfRange[m])
       IN /\ IsSplit(MonthsOfRange[m])
          /\ Len(cal) >= 2
          /\ Len(PageOf(cal[1]).days) = RowsPerPage
          /\ Len(PageOf(cal[Len(cal)]).days) < RowsPerPage
          /\ QuotEq(PageOf(cal[Len(cal)]).lineHeight, Quot(H, Len(PageOf(cal[Len(cal)]).days)))
          /\ ~QuotLeq(PageOf(cal[Len(cal)]).lineHeight, PageOf(cal[1]).lineHeight)

\* the calendar references of a month in the final reference list
FinalCalendarOf(monthDate) ==
  SelectSeq(allRefs, LAMBDA r : r.type = "monthly" /\ r.date = monthDate)

\* C24: for every month, the date-link pass takes the split layout exactly
\* when the generator did, and for every day that has a daily page it puts
\* one link on the calendar page the day was drawn on, at the row baseline y
\* at which the generator drew the day (the rectangle starts at y - 2).
C24_LinksWhereDrawn ==
  DateLinksDone =>
    \A m \in 1..Len(MonthsOfRange) :
      LET monthDate == MonthsOfRange[m]
          cal == FinalCalendarOf(monthDate)
      IN /\ IsSplitLayout(getDeviceDimensions(cfg), DENSITY_CONFIGS[cfg.density],
                          getDaysInMonth(monthDate), cal)
              = NeedsSplit(Ctx(cfg), monthDate)
         /\ \A k \in 1..Len(cal) : \A i \in 1..Len(PageOf(cal[k]).days) :
              LET day == PageOf(cal[k]).days[i]
                  date == MkDate(getFullYear(monthDate), getMonth(monthDate) + 1, day)
              IN DailyRefsOf(date) # {} =>
                   /\ Cardinality(DateLinksOver(cal[k].page, day)) = 1
                   /\ \A l \in DateLinksOver(cal[k].page, day) :
                        links[l].y = PageOf(cal[k]).rowY[i]

\* a month split over several calendar pages: a link on the last page, below
\* its first row, at the y of the drawn row
C24_Witness ==
  /\ DateLinksDone
  /\ \E m \in 1..Len(MonthsOfRange) :
       LET cal == FinalCalendarOf(MonthsOfRange[m])
       IN /\ Len(cal) >= 2
          /\ \E i \in 2..Len(PageOf(cal[Len(cal)]).days) :
               \E l \in DateLinksOver(cal[Len(cal)].page, PageOf(cal[Len(cal)]).days[i]) :
                 /\ links[l].y = PageOf(cal[Len(cal)]).rowY[i]
                 /\ links[l].y # PageOf(cal[Len(cal)]).rowY[1]

\* the references of a month, in the order generateMonthlyLog returned them
MonthRefs(monthDate) ==
  SelectSeq(bujoPageRefs, LAMBDA r : r.type \in {"monthly", "monthly-tasks"} /\ r.date = monthDate)

\* the month is in combined layout: its N rows fit on one page at the
\* preferred row height
CombinedLayout(monthDate) ==
  /\ getDaysInMonth(monthDate) * Rpref <= H
  /\ getDaysInMonth(monthDate) <= RowsPerPage

\* C25: for a month in combined layout generateMonthlyLog returns exactly a
\* 'monthly' and a 'monthly-tasks' reference with the same pageIndex and
\* yearMonth; for a month in split layout, a 'monthly' reference per
\* calendar page and then exactly one 'monthly-tasks' reference, every one
\* on a page of its own, at consecutive positions, with the same yearMonth.
C25_MonthRefsShape ==
  MonthlyGenerated =>
    \A m \in 1..Len(MonthsOfRange) :
      LET monthDate == MonthsOfRange[m]
          refs == MonthRefs(monthDate)
          n == Len(refs)
      IN /\ \A i \in 1..n : refs[i].yearMonth = formatYearMonth(monthDate)
         /\ IF CombinedLayout(monthDate)
            THEN /\ n = 2
                 /\ refs[1].type = "monthly" /\ refs[2].type = "monthly-tasks"
                 /\ refs[1].pageIndex = refs[2].pageIndex
                 /\ refs[1].page = refs[2].page
            ELSE /\ n = Ceil(getDaysInMonth(monthDate), RowsPerPage) + 1
                 /\ \A i \in 1..(n - 1) :
                      /\ refs[i].type = "monthly"
                      /\ DrawnType(refs[i].page) = "monthly"
                      /\ PageOf(refs[i]).days # <<>>
                      /\ refs[i + 1].pageIndex = refs[i].pageIndex + 1
                 /\ refs[n].type = "monthly-tasks"
                 /\ DrawnType(refs[n].page) = "monthly-tasks"
                 /\ \A i, j \in 1..n : i # j => refs[i].page # refs[j].page

\* a month that fits one page by its row count but not at the preferred row
\* height: one calendar page, and the tasks on the page after it
C25_Witness ==
  /\ MonthlyGenerated
  /\ \E m \in 1..Len(MonthsOfRange) :
       LET refs == MonthRefs(MonthsOfRange[m])
       IN /\ getDaysInMonth(MonthsOfRange[m]) <= RowsPerPage
          /\ getDaysInMonth(MonthsOfRange[m]) * Rpref > H
          /\ Len(refs) = 2
          /\ refs[2].type = "monthly-tasks"
          /\ refs[2].pageIndex = refs[1].pageIndex + 1

\* C26: for every device, density and top and bottom padding the form
\* allows, the calendar loop of generateMonthlyLog terminates: the rows per
\* page are at least 1 before the loop runs, every page the loop added
\* carries at least one day and starts after the last day of the page before
\* it, and a month of N days has at most N calendar pages.
C26_CalendarLoopTerminates ==
  /\ cfg.includeMonthlyLog => RowsPerPage >= 1
  /\ MonthlyGenerated =>
       \A m \in 1..Len(MonthsOfRange) :
         LET cal == CalendarOf(MonthsOfRange[m])
         IN /\ Len(cal) >= 1
            /\ Len(cal) <= getDaysInMonth(MonthsOfRange[m])
            /\ \A i \in 1..Len(cal) : Len(PageOf(cal[i]).days) >= 1
            /\ \A i \in 2..Len(cal) :
                 PageOf(cal[i]).days[1]
                   = PageOf(cal[i - 1]).days[Len(PageOf(cal[i - 1]).days)] + 1

\* the smallest page with the largest paddings and the tallest rows: 14 rows
\* per page, and a month of 31 days on three calendar pages
C26_Witness ==
  /\ MonthlyGenerated
  /\ cfg.device = "move" /\ cfg.density = "comfortable"
  /\ cfg.padding.top = 80 /\ cfg.padding.bottom = 80
  /\ RowsPerPage = 14
  /\ \E m \in 1..Len(MonthsOfRange) :
       /\ getDaysInMonth(MonthsOfRange[m]) = 31
       /\ Len(CalendarOf(MonthsOfRange[m])) = 3

\* the newest generation has failed: its catch block has run, no later
\* generation was started and the hook is still mounted
FailedLast(g) == g = Len(gens) /\ gens[g].pc = "failed" /\ mounted

\* C27: when a generation that was not superseded has failed, the state has
\* the error set and isLoading false, and nothing of the failed generation
\* is kept: the document reference is not its document, and no page image
\* and no link list comes from it.
C27_FailureLeavesNothing ==
  \A g \in 1..Len(gens) :
    FailedLast(g) =>
      /\ state.error /\ ~state.isLoading
      /\ pdfRef # g
      /\ \A i \in 1..Len(state.pages) : state.pages[i] # g
      /\ \A i \in 1..Len(state.pageLinks) : state.pageLinks[i] # g

\* no timer is pending, every generation that was started has returned
\* without a failure, and no page load is in flight
Settled ==
  /\ mounted
  /\ \A t \in 1..Len(timers) : timers[t] # "pending"
  /\ gens # <<>>
  /\ \A g \in 1..Len(gens) : gens[g].pc = "returned"
  /\ loads = {}

\* the configuration from which a page image or a link list was rendered
ShownFrom(tag) == gens[tag].config

\* C28: once the configuration changes have stopped and every generation
\* that was started has finished, what is displayed is the document of the
\* most recent configuration: the last generation was made from it, the
\* document reference, totalPages and every page image and link list come
\* from a document generated from it, and isLoading is false.
C28_LatestDisplayed ==
  Settled =>
    /\ gens[Len(gens)].config = configRef
    /\ pdfRef # 0 /\ ShownFrom(pdfRef) = configRef
    /\ state.totalPages = configRef.numPages
    /\ \A i \in 1..Len(state.pages) :
         state.pages[i] # 0 => ShownFrom(state.pages[i]) = configRef
    /\ \A i \in 1..Len(state.pageLinks) :
         state.pageLinks[i] # 0 => ShownFrom(state.pageLinks[i]) = configRef
    /\ ~state.isLoading

\* the timers that have been set and have neither fired nor been cleared
PendingTimers == {t \in 1..Len(timers) : timers[t] = "pending"}

\* C29 as a step: a configuration change leaves exactly the timer it set
\* pending, and a timer that fires starts one generation, with the
\* configuration of the last change
C29_Step ==
  /\ configRef' # configRef => PendingTimers' = {Len(timers')} /\ gens' = gens
  /\ Len(gens') > Len(gens) =>
       /\ Len(gens') = Len(gens) + 1
       /\ gens'[Len(gens')].config = configRef
       /\ PendingTimers' = {}

\* C29: at most one debounce timer is pending at any time, and it is the one
\* debounceTimeout holds; a configuration change that arrives while a timer
\* is pending cancels it, so that a burst of changes starts one generation,
\* from the last configuration of the burst.
C29_OneTimerLastConfig ==
  /\ [](Cardinality(PendingTimers) <= 1 /\ PendingTimers \subseteq {debounceTimeout})
  /\ [][C29_Step]_vars

\* a burst: the timer of the mount and the timer of the first change were
\* cleared, and the one generation started uses the configuration of the
\* second change
C29_Witness ==
  /\ timers = <<"cleared", "cleared", "fired">>
  /\ Len(gens) = 1
  /\ gens[1].config = configRef

====
